---- MODULE Spec2Model ----
(***************************************************************************)
(* The EJECS IDL front end: the lexer (package lexer) and the parser       *)
(* (package parser, ParseProgram and its grammar rules), as a state        *)
(* machine.  The source text is a string; the lexer reads it byte by byte, *)
(* the parser keeps curToken / peekToken and pulls tokens on demand.       *)
(* One step of the machine is one iteration of ParseProgram's top-level    *)
(* loop: the dispatch on curToken, the whole grammar rule it calls, and    *)
(* the trailing nextToken.                                                 *)
(***************************************************************************)
EXTENDS Integers, Sequences, FiniteSets, TLC

VARIABLES
    source,      \* the declarations of the source text, as their author wrote them
    l,           \* Parser.l: the lexer (input, position, readPosition, ch, line, column)
    curToken,    \* Parser.curToken
    peekToken,   \* Parser.peekToken
    errors,      \* Parser.errors
    stdout,      \* what the process has written to standard output
    statements,  \* program.Statements inside ParseProgram
    result,      \* what ParseProgram returned: [program, err]; where parseExpression
                 \* is called by itself, what it returned: [node, err]
    tokens,      \* the tokens NextToken returned to a caller that drives the lexer itself
    pc,          \* "parsing" inside ParseProgram's loop, "done" after it returned,
                 \* "lexing" while a caller drives the lexer itself, "walking"
                 \* while one drives the Parser, "expression" after parseExpression
    second       \* a second Parser of the same process and its ParseProgram, on
                 \* a text of its own: its source, l, curToken, peekToken, errors,
                 \* statements, result and pc; Nil where there is one Parser

vars ==
    <<source, l, curToken, peekToken, errors, stdout, statements, result, tokens, pc,
      second>>

(***************************************************************************)
(* Token kinds (package token).                                            *)
(***************************************************************************)
ILLEGAL == "ILLEGAL"
EOF == "EOF"
IDENT == "IDENT"
INT == "INT"
FLOAT == "FLOAT"
STRING_ == "STRING"
ASSIGN == "="
PLUS == "+"
MINUS == "-"
BANG == "!"
ASTERISK == "*"
SLASH == "/"
LT == "<"
GT == ">"
EQ == "=="
NOT_EQ == "!="
LTE == "<="
GTE == ">="
PLUSEQ == "+="
AND == "&&"
OR == "||"
COMMA == ","
SEMICOLON == ";"
COLON == ":"
LPAREN == "("
RPAREN == ")"
LBRACE == "{"
RBRACE == "}"
LBRACKET == "["
RBRACKET == "]"
DOT == "."
AT == "@"
QUESTION == "?"
COMPONENT == "component"
RELATIONSHIP == "relationship"
SYSTEM == "system"
QUERY == "query"
PAIR == "pair"
FREQUENCY == "frequency"
PRIORITY == "priority"
CODE == "code"
FUNCTION == "function"
TRUE_ == "true"
FALSE_ == "false"
IF_ == "if"
ELSE_ == "else"
RETURN == "return"
FOR == "for"
WHILE == "while"
NULL == "null"
TABLE == "table"

\* token.New
NewToken(tokenType, literal, line, column) ==
    [Type |-> tokenType, Literal |-> literal, Line |-> line, Column |-> column]

(***************************************************************************)
(* The lexer.  A byte is a string of length one.  NUL is the byte 0, which  *)
(* readChar stores in ch at end of input; in the strings of this module    *)
(* the byte 0 is written as the escape \f.                                 *)
(***************************************************************************)
NUL == "\f"

Letters ==
    {"a", "b", "c", "d", "e", "f", "g", "h", "i", "j", "k", "l", "m",
     "n", "o", "p", "q", "r", "s", "t", "u", "v", "w", "x", "y", "z",
     "A", "B", "C", "D", "E", "F", "G", "H", "I", "J", "K", "L", "M",
     "N", "O", "P", "Q", "R", "S", "T", "U", "V", "W", "X", "Y", "Z", "_"}

Digits == {"0", "1", "2", "3", "4", "5", "6", "7", "8", "9"}

isLetter(ch) == ch \in Letters

isDigit(ch) == ch \in Digits

\* input[i], i counted from 0 as in Go
ByteAt(input, i) == SubSeq(input, i + 1, i + 1)

\* input[from:to]
Slice(input, from, to) == SubSeq(input, from + 1, to)

\* The entries of the keyword table that give a word a kind of its own.
keywordsReserved ==
    [w \in {"component", "system", "relationship", "true", "false", "nil",
            "query", "frequency", "priority", "code", "pair", "table"} |->
        CASE w = "component" -> COMPONENT
          [] w = "system" -> SYSTEM
          [] w = "relationship" -> RELATIONSHIP
          [] w = "true" -> TRUE_
          [] w = "false" -> FALSE_
          [] w = "nil" -> NULL
          [] w = "query" -> QUERY
          [] w = "frequency" -> FREQUENCY
          [] w = "priority" -> PRIORITY
          [] w = "code" -> CODE
          [] w = "pair" -> PAIR
          [] w = "table" -> TABLE]

\* The entries of the keyword table whose kind is IDENT.
keywordsAsIdent ==
    [w \in {"parameters", "Instance", "Vector2", "Vector3", "CFrame", "Color3", "Enum"} |-> IDENT]

\* A keyword table in which the word parameters has a kind of its own.
keywordsParametersReserved ==
    [w \in DOMAIN keywordsReserved \cup DOMAIN keywordsAsIdent |->
        IF w \in DOMAIN keywordsReserved THEN keywordsReserved[w]
        ELSE IF w = "parameters" THEN "parameters" ELSE keywordsAsIdent[w]]

keywords ==
    [w \in DOMAIN keywordsReserved \cup DOMAIN keywordsAsIdent |->
        IF w \in DOMAIN keywordsReserved THEN keywordsReserved[w] ELSE keywordsAsIdent[w]]

\* A lookup in which the words the table lists with the kind IDENT are not
\* identifiers.
lookupIdentListedOnly(ident) ==
    IF ident \in DOMAIN keywordsReserved THEN keywordsReserved[ident]
    ELSE IF ident \in DOMAIN keywordsAsIdent THEN ILLEGAL
    ELSE IDENT

lookupIdent(ident) ==
    IF ident \in DOMAIN keywords THEN keywords[ident] ELSE IDENT

\* lexer.New before its first readChar
NewLexerState(input) ==
    [input |-> input, position |-> 0, readPosition |-> 0, ch |-> NUL,
     line |-> 1, column |-> 1]

readChar(lx) ==
    LET ch == IF lx.readPosition >= Len(lx.input) THEN NUL
              ELSE ByteAt(lx.input, lx.readPosition)
    IN  [lx EXCEPT !.ch = ch,
                   !.line = IF ch = "\n" THEN lx.line + 1 ELSE lx.line,
                   !.column = IF ch = "\n" THEN 1 ELSE lx.column + 1,
                   !.position = lx.readPosition,
                   !.readPosition = lx.readPosition + 1]

NewLexer(input) == readChar(NewLexerState(input))

peekChar(lx) ==
    IF lx.readPosition >= Len(lx.input) THEN NUL ELSE ByteAt(lx.input, lx.readPosition)

RECURSIVE skipWhitespace(_)
skipWhitespace(lx) ==
    IF lx.ch \in {" ", "\t", "\n", "\r"} THEN skipWhitespace(readChar(lx)) ELSE lx

\* the loop of readIdentifier: the lexer after the identifier's last byte
RECURSIVE readIdentifierLoop(_)
readIdentifierLoop(lx) ==
    IF isLetter(lx.ch) \/ isDigit(lx.ch) THEN readIdentifierLoop(readChar(lx)) ELSE lx

\* input[position:l.position], after being the lexer the loop leaves
Read(lx, after) == [l |-> after, literal |-> Slice(lx.input, lx.position, after.position)]

readIdentifier(lx) == Read(lx, readIdentifierLoop(lx))

RECURSIVE readNumberLoop(_)
readNumberLoop(lx) ==
    IF isDigit(lx.ch) \/ (lx.ch = "." /\ isDigit(peekChar(lx)))
    THEN readNumberLoop(readChar(lx)) ELSE lx

readNumber(lx) == Read(lx, readNumberLoop(lx))

\* the byte an escape sequence of a string stands for
Unescape(ch) ==
    CASE ch = "n" -> "\n"
      [] ch = "t" -> "\t"
      [] ch = "r" -> "\r"
      [] ch = "'" -> "'"
      [] ch = "\"" -> "\""
      [] ch = "\\" -> "\\"
      [] OTHER -> "\\" \o ch

RECURSIVE readStringLoop(_, _, _)
\* readString after the readChar that follows a backslash
readStringEscape(lx, quote, value) == readStringLoop(lx, quote, value \o Unescape(lx.ch))

\* the body of the loop of readString after its first readChar
readStringByte(lx, quote, value) ==
    IF lx.ch = "\\" THEN readStringEscape(readChar(lx), quote, value)
    ELSE IF lx.ch = quote \/ lx.ch = NUL THEN [l |-> lx, literal |-> value]
    ELSE readStringLoop(lx, quote, value \o lx.ch)

\* the loop of readString: value is the strings.Builder
readStringLoop(lx, quote, value) == readStringByte(readChar(lx), quote, value)

readString(lx, quote) == readStringLoop(lx, quote, "")

\* A lexer that skips the first '/' of a comment and nothing more.
readCommentOneByte(lx) == readChar(lx)

RECURSIVE readComment(_)
readComment(lx) ==
    IF lx.ch # "\n" /\ lx.ch # NUL THEN readComment(readChar(lx)) ELSE lx

\* strings.Contains(literal, ".")
ContainsDot(literal) == \E i \in 1..Len(literal) : SubSeq(literal, i, i) = "."

\* The two-character operators: the first byte, the second byte that completes
\* the operator, the operator's kind, and the kind of the first byte alone.
TwoCharOps ==
    {<<"=", "=", EQ, ASSIGN>>, <<"!", "=", NOT_EQ, BANG>>, <<"<", "=", LTE, LT>>,
     <<">", "=", GTE, GT>>, <<"+", "=", PLUSEQ, PLUS>>, <<"&", "&", AND, ILLEGAL>>,
     <<"|", "|", OR, ILLEGAL>>}

\* The bytes that are a token on their own, whose kind is spelled like the byte.
\* The one-byte operators without '-'.
SingleCharKindsButMinus ==
    {ASTERISK, DOT, COMMA, SEMICOLON, COLON, LPAREN, RPAREN, LBRACE, RBRACE,
     AT, QUESTION, LBRACKET, RBRACKET}

SingleCharKinds ==
    {MINUS, ASTERISK, DOT, COMMA, SEMICOLON, COLON, LPAREN, RPAREN, LBRACE, RBRACE,
     AT, QUESTION, LBRACKET, RBRACKET}

\* The bytes of 0x80 and more are written as the characters of the same
\* number: 0xE9 is "é". string(ch) of a byte is the UTF-8 encoding of the
\* code point of that number, which for these bytes is two bytes: 0xC3 0xA9
\* for 0xE9, 0xC3 0xBF for 0xFF.
Utf8 == [b \in {"é", "ÿ"} |-> IF b = "é" THEN "Ã©" ELSE "Ã¿"]

\* string(l.ch)
string(ch) == IF ch \in DOMAIN Utf8 THEN Utf8[ch] ELSE ch

\* What NextToken returns and the lexer it leaves: start is the lexer at the
\* token's first byte, which holds startLine and startColumn.
Lexed(lx, tokenType, literal, start) ==
    [l |-> lx, tok |-> NewToken(tokenType, literal, start.line, start.column)]

\* A lexer that never looks at the byte after the first.
lexOperatorFirstByteOnly(lx, t) == Lexed(readChar(lx), t[4], lx.ch, lx)

\* case '=', '!', '<', '>', '+', '&', '|': t is the entry of the byte
lexOperator(lx, t) ==
    IF peekChar(lx) = t[2]
    THEN Lexed(readChar(readChar(lx)), t[3], t[1] \o t[2], lx)
    ELSE Lexed(readChar(lx), t[4], lx.ch, lx)

\* case '"', '\'': r is what readString returned
lexString(r, start) ==
    Lexed(IF r.l.ch = "\"" \/ r.l.ch = "'" THEN readChar(r.l) ELSE r.l,
          STRING_, r.literal, start)

\* default, a letter: r is what readIdentifier returned
lexIdentifier(r, start) == Lexed(r.l, lookupIdent(r.literal), r.literal, start)

\* default, a digit: r is what readNumber returned
\* A number token returned with the lexer left where the number began.
lexNumberUnread(r, start) ==
    Lexed(start, IF ContainsDot(r.literal) THEN FLOAT ELSE INT, r.literal, start)

lexNumber(r, start) ==
    Lexed(r.l, IF ContainsDot(r.literal) THEN FLOAT ELSE INT, r.literal, start)

RECURSIVE NextToken(_)
\* NextToken after skipWhitespace: the switch on l.ch
lexToken(lx) ==
    IF \E t \in TwoCharOps : t[1] = lx.ch
    THEN lexOperator(lx, CHOOSE t \in TwoCharOps : t[1] = lx.ch)
    ELSE IF lx.ch = "/"
    THEN IF peekChar(lx) = "/" THEN NextToken(readComment(lx))
         ELSE Lexed(readChar(lx), SLASH, lx.ch, lx)
    ELSE IF lx.ch \in SingleCharKinds THEN Lexed(readChar(lx), lx.ch, lx.ch, lx)
    ELSE IF lx.ch = "\"" \/ lx.ch = "'" THEN lexString(readString(lx, lx.ch), lx)
    ELSE IF lx.ch = NUL THEN Lexed(readChar(lx), EOF, "", lx)
    ELSE IF isLetter(lx.ch) THEN lexIdentifier(readIdentifier(lx), lx)
    ELSE IF isDigit(lx.ch) THEN lexNumber(readNumber(lx), lx)
    ELSE Lexed(readChar(lx), ILLEGAL, string(lx.ch), lx)

NextToken(lx) == lexToken(skipWhitespace(lx))

(***************************************************************************)
(* The parser.  p is the Parser: its lexer, curToken, peekToken, errors,   *)
(* and beside them what it has printed.  Every grammar rule maps a Parser  *)
(* to the Parser it leaves, the node it returns and the error it returns.  *)
(***************************************************************************)
\* Go's nil: a nil pointer, a nil interface, a nil error, a nil slice
Nil == [kind |-> "nil"]

\* return node, nil
Ok(p, node) == [p |-> p, node |-> node, err |-> Nil]

\* return nil, err
Fail(p, err) == [p |-> p, node |-> Nil, err |-> err]

\* Precedence levels
LOWEST == 1
EQUALS == 2
LESSGREATER == 3
SUM == 4
PRODUCT == 5
PREFIX == 6
CALL == 7
INDEX == 8
DOT_PRECEDENCE == 9

precedences ==
    [t \in {EQ, NOT_EQ, LT, GT, LTE, GTE, PLUS, MINUS, SLASH, ASTERISK, LPAREN, DOT} |->
        CASE t \in {EQ, NOT_EQ} -> EQUALS
          [] t \in {LT, GT, LTE, GTE} -> LESSGREATER
          [] t \in {PLUS, MINUS} -> SUM
          [] t \in {SLASH, ASTERISK} -> PRODUCT
          [] t = LPAREN -> CALL
          [] t = DOT -> DOT_PRECEDENCE]

\* the token kinds New registers a prefix parse function for
prefixParseFns == {IDENT, INT, FLOAT, STRING_, TRUE_, FALSE_, LBRACE, LPAREN, MINUS, BANG}

\* the token kinds New registers an infix parse function for
infixParseFns == {LPAREN, DOT}

\* The token NextToken returned moves into peekToken.
Advance(p, r) == [p EXCEPT !.curToken = p.peekToken, !.peekToken = r.tok, !.l = r.l]

\* A nextToken that drops one token of the stream on its way to peekToken.
nextTokenSkipping(p) == Advance(p, NextToken(NextToken(p.l).l))

nextToken(p) == Advance(p, NextToken(p.l))

peekTokenIs(p, t) == p.peekToken.Type = t

curTokenIs(p, t) == p.curToken.Type = t

\* Error{Line, Column, Message}; Error() renders it "line L, column C: Message"
newErrorf(line, column, msg) ==
    [kind |-> "Error", Line |-> line, Column |-> column, Message |-> msg]

newError(p, msg) == newErrorf(p.curToken.Line, p.curToken.Column, msg)

\* fmt.Errorf: an error that is its message alone
Errorf(msg) == [kind |-> "errorString", Message |-> msg]

\* %d: the decimal digits of a number that is not negative
RECURSIVE Itoa(_)
Itoa(n) ==
    IF n < 10 THEN SubSeq("0123456789", n + 1, n + 1)
    ELSE Itoa(n \div 10) \o SubSeq("0123456789", (n % 10) + 1, (n % 10) + 1)

\* err.Error(): Error.Error, and the Error method of what fmt.Errorf returns
ErrorText(err) ==
    IF err.kind = "Error"
    THEN "line " \o Itoa(err.Line) \o ", column " \o Itoa(err.Column) \o ": " \o err.Message
    ELSE err.Message

\* The statements that follow a call: rest, given what the call returned.
Then(r, rest(_)) == rest(r)

\* if err != nil { return nil, err }, and otherwise the statements that follow
Try(r, rest(_)) == IF r.err # Nil THEN r ELSE rest(r)

expectPeek(p, t) ==
    IF p.peekToken.Type = t
    THEN [p |-> nextToken(p), ok |-> TRUE]
    ELSE [p |-> [p EXCEPT !.errors =
                    Append(@, "expected " \o t \o ", got " \o p.peekToken.Type)],
          ok |-> FALSE]

peekPrecedence(p) ==
    IF p.peekToken.Type \in DOMAIN precedences THEN precedences[p.peekToken.Type] ELSE LOWEST

parseIdentifier(p) == Ok(p, [kind |-> "Identifier", Value |-> p.curToken.Literal])

parseNumberLiteral(p) == Ok(p, [kind |-> "NumberLiteral", Value |-> p.curToken.Literal])

parseStringLiteral(p) == Ok(p, [kind |-> "StringLiteral", Value |-> p.curToken.Literal])

parseBooleanLiteral(p) == Ok(p, [kind |-> "BooleanLiteral", Value |-> curTokenIs(p, TRUE_)])

RECURSIVE parseExpression(_, _)
RECURSIVE parseInfixLoop(_, _, _)
RECURSIVE parseGroupedExpression(_)
RECURSIVE parseTableConstructor(_)
RECURSIVE parseTableFieldsLoop(_, _, _, _)
RECURSIVE parseTableField(_)
RECURSIVE parseCallExpression(_, _)
RECURSIVE parseExpressionList(_, _)
RECURSIVE parseExpressionListLoop(_, _)
RECURSIVE parsePrefixExpression(_)

\* p.prefixParseFns[p.curToken.Type]()
prefixParse(p) ==
    CASE p.curToken.Type = IDENT -> parseIdentifier(p)
      [] p.curToken.Type \in {INT, FLOAT} -> parseNumberLiteral(p)
      [] p.curToken.Type = STRING_ -> parseStringLiteral(p)
      [] p.curToken.Type \in {TRUE_, FALSE_} -> parseBooleanLiteral(p)
      [] p.curToken.Type = LBRACE -> parseTableConstructor(p)
      [] p.curToken.Type = LPAREN -> parseGroupedExpression(p)
      [] p.curToken.Type \in {MINUS, BANG} -> parsePrefixExpression(p)

parseMemberAccessExpression(p, left) ==
    IF ~curTokenIs(p, DOT) THEN Fail(p, newError(p, "expected '.' for member access"))
    ELSE Then(nextToken(p), LAMBDA p1 :
         IF ~curTokenIs(p1, IDENT)
         THEN Fail(p1, newError(p1, "expected identifier after '.'"))
         ELSE Ok(p1, [kind |-> "MemberAccessExpression", Object |-> left,
                      MemberName |-> [kind |-> "Identifier",
                                      Value |-> p1.curToken.Literal]]))

\* p.infixParseFns[p.curToken.Type](left), called with curToken on the operator
infixParse(p, left) ==
    CASE p.curToken.Type = LPAREN -> parseCallExpression(p, left)
      [] p.curToken.Type = DOT -> parseMemberAccessExpression(p, left)

parseExpression(p, precedence) ==
    IF p.curToken.Type \notin prefixParseFns
    THEN Fail(p, newError(p, "no prefix parse function for " \o p.curToken.Type \o " found"))
    ELSE Try(prefixParse(p), LAMBDA r : parseInfixLoop(r.p, precedence, r.node))

\* the loop for infix operators of parseExpression
parseInfixLoop(p, precedence, leftExp) ==
    IF ~peekTokenIs(p, SEMICOLON) /\ precedence < peekPrecedence(p)
    THEN IF p.peekToken.Type \notin infixParseFns
         THEN Ok(p, leftExp)
         ELSE Try(infixParse(nextToken(p), leftExp), LAMBDA r :
                  parseInfixLoop(r.p, precedence, r.node))
    ELSE Ok(p, leftExp)

parseGroupedExpression(p) ==
    Try(parseExpression(nextToken(p), LOWEST), LAMBDA r :
    Then(expectPeek(r.p, RPAREN), LAMBDA e :
    IF ~e.ok THEN Fail(e.p, newError(e.p, "expected ')' after grouped expression"))
    ELSE Ok(e.p, r.node)))

\* A prefix operator that binds tighter than member access and call.
parsePrefixExpressionTight(p) ==
    Try(parseExpression(nextToken(p), DOT_PRECEDENCE), LAMBDA r :
    Ok(r.p, [kind |-> "PrefixExpression", Operator |-> p.curToken.Literal,
             Right |-> r.node]))

parsePrefixExpression(p) ==
    Try(parseExpression(nextToken(p), PREFIX), LAMBDA r :
    Ok(r.p, [kind |-> "PrefixExpression", Operator |-> p.curToken.Literal,
             Right |-> r.node]))

\* the rest of parseExpressionList after its first expression: list is the
\* expressions so far
parseExpressionListLoop(p, list) ==
    IF peekTokenIs(p, COMMA)
    THEN Try(parseExpression(nextToken(nextToken(p)), LOWEST), LAMBDA r :
             parseExpressionListLoop(r.p, Append(list, r.node)))
    ELSE Ok(p, list)

parseExpressionList(p, end) ==
    IF peekTokenIs(p, end) THEN Ok(nextToken(p), <<>>)
    ELSE Try(parseExpression(nextToken(p), LOWEST), LAMBDA r :
         Try(parseExpressionListLoop(r.p, <<r.node>>), LAMBDA rest :
         Then(expectPeek(rest.p, end), LAMBDA e :
         IF ~e.ok
         THEN Fail(e.p, newError(e.p, "expected '" \o end \o "' to end expression list"))
         ELSE Ok(e.p, rest.node))))

parseCallExpression(p, function) ==
    Try(parseExpressionList(p, RPAREN), LAMBDA r :
    Ok(r.p, [kind |-> "CallExpression", Function |-> function, Arguments |-> r.node]))

\* &ast.TableField{Key: keyExpr, Value: valueExpr}
TableField(kv) == [kind |-> "TableField", Key |-> kv[1], Value |-> kv[2]]

\* The end of parseTableField: the value, then the token consumed after it.
\* The node returned is the pair of the key and the value.
parseTableFieldValue(p, key) ==
    Try(parseExpression(p, LOWEST), LAMBDA v :
    Ok(nextToken(v.p), <<key, v.node>>))

parseTableField(p) ==
    IF curTokenIs(p, LBRACKET)
    THEN Try(parseExpression(nextToken(p), LOWEST), LAMBDA k :
         Then(expectPeek(k.p, RBRACKET), LAMBDA e1 :
         IF ~e1.ok
         THEN Fail(e1.p, newError(e1.p, "expected ']' after table key expression"))
         ELSE Then(expectPeek(e1.p, ASSIGN), LAMBDA e2 :
         IF ~e2.ok
         THEN Fail(e2.p, newError(e2.p, "expected '=' after table key expression"))
         ELSE parseTableFieldValue(e2.p, k.node))))
    ELSE IF curTokenIs(p, IDENT) /\ peekTokenIs(p, ASSIGN)
    THEN parseTableFieldValue(nextToken(nextToken(p)),
                              [kind |-> "Identifier", Value |-> p.curToken.Literal])
    ELSE parseTableFieldValue(p, Nil)

\* The end of parseTableConstructor: the closing brace, which it consumes.
parseTableEnd(p, fields, startLine, startCol) ==
    IF ~curTokenIs(p, RBRACE)
    THEN Fail(p, newErrorf(startLine, startCol,
                  "expected '}' or ',' in table constructor, got " \o p.curToken.Type))
    ELSE Ok(nextToken(p), [kind |-> "TableConstructor", Fields |-> fields])

\* The loop over the subsequent fields of parseTableConstructor: fields is
\* table.Fields, startLine and startCol the position of the '{'.
parseTableFieldsLoop(p, fields, startLine, startCol) ==
    IF curTokenIs(p, COMMA)
    THEN Then(nextToken(p), LAMBDA p1 :
         IF curTokenIs(p1, RBRACE)
         THEN parseTableEnd(p1, fields, startLine, startCol)
         ELSE Try(parseTableField(p1), LAMBDA r :
              parseTableFieldsLoop(r.p, Append(fields, TableField(r.node)),
                                   startLine, startCol)))
    ELSE parseTableEnd(p, fields, startLine, startCol)

parseTableConstructor(p) ==
    IF peekTokenIs(p, RBRACE)
    THEN Ok(nextToken(nextToken(p)), [kind |-> "TableConstructor", Fields |-> <<>>])
    ELSE Try(parseTableField(nextToken(p)), LAMBDA r :
         parseTableFieldsLoop(r.p, <<TableField(r.node)>>,
                              p.curToken.Line, p.curToken.Column))

(***************************************************************************)
(* Statement grammar: components and their fields.                         *)
(***************************************************************************)
\* &ast.Field{}
NewField ==
    [kind |-> "Field", Name |-> "", Type |-> "", Optional |-> FALSE,
     MapKeyType |-> "", MapValueType |-> "", DefaultValue |-> Nil]

\* fmt.Println("DEBUG: ...") followed by os.Stdout.Sync()
DebugPrint(p) ==
    [p EXCEPT !.stdout = Append(@, "DEBUG: p.curTokenIs(token.TABLE) is TRUE\n")]

\* parseField, the branch of a 'table' type: table < K , V > name
parseFieldTable(p0) ==
    Then(nextToken(DebugPrint(p0)), LAMBDA p1 :
    IF ~curTokenIs(p1, LT)
    THEN Fail(p1, newError(p1, "expected '<' after table keyword, got " \o p1.curToken.Type))
    ELSE Then(nextToken(p1), LAMBDA p2 :
    IF ~curTokenIs(p2, IDENT) /\ ~curTokenIs(p2, STRING_)
    THEN Fail(p2, newError(p2, "expected table key type (identifier or string), got "
                               \o p2.curToken.Type))
    ELSE Then(nextToken(p2), LAMBDA p3 :
    IF ~curTokenIs(p3, COMMA)
    THEN Fail(p3, newError(p3, "expected ',' between table key and value types, got "
                               \o p3.curToken.Type))
    ELSE Then(nextToken(p3), LAMBDA p4 :
    IF ~curTokenIs(p4, IDENT)
    THEN Fail(p4, newError(p4, "expected table value type (identifier), got "
                               \o p4.curToken.Type))
    ELSE Then(nextToken(p4), LAMBDA p5 :
    IF ~curTokenIs(p5, GT)
    THEN Fail(p5, newError(p5, "expected '>' after table value type, got "
                               \o p5.curToken.Type))
    ELSE Then(nextToken(p5), LAMBDA p6 :
    IF ~curTokenIs(p6, IDENT)
    THEN Fail(p6, newError(p6, "expected field name after table type, got "
                               \o p6.curToken.Type))
    ELSE Ok(nextToken(p6),
            [NewField EXCEPT !.Type = "table",
                             !.MapKeyType = p2.curToken.Literal,
                             !.MapValueType = p4.curToken.Literal,
                             !.Name = p6.curToken.Literal])))))))

\* parseField, the branch of a regular type, once the '?' is consumed if
\* there is one: Type name, Type? name
parseFieldName(p, type, optional) ==
    Then(nextToken(p), LAMBDA p1 :
    IF ~curTokenIs(p1, IDENT)
    THEN Fail(p1, newError(p1, "expected field name, got " \o p1.curToken.Type))
    ELSE Ok(nextToken(p1),
            [NewField EXCEPT !.Type = type, !.Optional = optional,
                             !.Name = p1.curToken.Literal]))

\* parseField, the branch of a regular type
parseFieldRegular(p) ==
    IF peekTokenIs(p, QUESTION)
    THEN parseFieldName(nextToken(p), p.curToken.Literal, TRUE)
    ELSE parseFieldName(p, p.curToken.Literal, FALSE)

\* parseField up to the field name
parseFieldHead(p) ==
    IF curTokenIs(p, TABLE) THEN parseFieldTable(p)
    ELSE IF curTokenIs(p, IDENT) THEN parseFieldRegular(p)
    ELSE Fail(p, newError(p, "expected field type (identifier or 'table'), got "
                             \o p.curToken.Type))

\* parseField: the optional default value
parseFieldDefault(p, field) ==
    IF curTokenIs(p, ASSIGN)
    THEN Try(parseExpression(nextToken(p), LOWEST), LAMBDA r :
         Ok(r.p, [field EXCEPT !.DefaultValue = r.node]))
    ELSE Ok(p, field)

\* A parseField that skips nothing.
findSemicolonAdjacent(p) == p

\* parseField: the loop that skips until the semicolon
RECURSIVE findSemicolon(_)
findSemicolon(p) ==
    IF ~curTokenIs(p, SEMICOLON) /\ ~curTokenIs(p, EOF) THEN findSemicolon(nextToken(p)) ELSE p

parseField(p) ==
    Try(parseFieldHead(p), LAMBDA h :
    Try(parseFieldDefault(h.p, h.node), LAMBDA d :
    Then(findSemicolon(d.p), LAMBDA p1 :
    IF ~curTokenIs(p1, SEMICOLON)
    THEN Fail(p1, newError(p1, "missing ';' after field definition for field '"
                               \o d.node.Name \o "'"))
    ELSE Ok(nextToken(p1), d.node))))

\* parseComponent: the loop over the fields, then the closing brace
RECURSIVE parseFields(_, _)
parseFields(p, comp) ==
    IF ~curTokenIs(p, RBRACE) /\ ~curTokenIs(p, EOF)
    THEN Try(parseField(p), LAMBDA f :
         parseFields(f.p, [comp EXCEPT !.Fields = Append(@, f.node)]))
    ELSE IF ~curTokenIs(p, RBRACE)
         THEN Fail(p, newError(p, "expected '}' to close component, got " \o p.curToken.Type))
         ELSE Ok(p, comp)

parseComponent(p0) ==
    Then(nextToken(p0), LAMBDA p1 :
    IF ~curTokenIs(p1, IDENT)
    THEN Fail(p1, newError(p1, "expected component name, got " \o p1.curToken.Type))
    ELSE Then(nextToken(p1), LAMBDA p2 :
    IF ~curTokenIs(p2, LBRACE)
    THEN Fail(p2, newError(p2, "expected '{', got " \o p2.curToken.Type))
    ELSE parseFields(nextToken(p2),
                     [kind |-> "Component", Name |-> p1.curToken.Literal,
                      Fields |-> <<>>, Attributes |-> <<>>])))

(***************************************************************************)
(* Statement grammar: relationships.                                       *)
(***************************************************************************)
\* parseRelationship from the 'relationship' keyword on; type is rel.Type
parseRelationshipBody(p1, type) ==
    IF p1.curToken.Type # RELATIONSHIP
    THEN Fail(p1, Errorf("expected 'relationship', got " \o p1.curToken.Type))
    ELSE Then(nextToken(p1), LAMBDA p2 :
    IF p2.curToken.Type # IDENT
    THEN Fail(p2, Errorf("expected identifier, got " \o p2.curToken.Type))
    ELSE Then(nextToken(p2), LAMBDA p3 :
    IF p3.curToken.Type # LBRACE
    THEN Fail(p3, Errorf("expected '{', got " \o p3.curToken.Type))
    ELSE Then(nextToken(p3), LAMBDA p4 :
    IF p4.curToken.Type # IDENT \/ p4.curToken.Literal # "child"
    THEN Fail(p4, Errorf("expected 'child', got " \o p4.curToken.Type))
    ELSE Then(nextToken(p4), LAMBDA p5 :
    IF p5.curToken.Type # COLON
    THEN Fail(p5, Errorf("expected ':', got " \o p5.curToken.Type))
    ELSE Then(nextToken(p5), LAMBDA p6 :
    IF p6.curToken.Type # IDENT
    THEN Fail(p6, Errorf("expected identifier, got " \o p6.curToken.Type))
    ELSE Then(nextToken(p6), LAMBDA p7 :
    IF p7.curToken.Type # IDENT \/ p7.curToken.Literal # "parent"
    THEN Fail(p7, Errorf("expected 'parent', got " \o p7.curToken.Type))
    ELSE Then(nextToken(p7), LAMBDA p8 :
    IF p8.curToken.Type # COLON
    THEN Fail(p8, Errorf("expected ':', got " \o p8.curToken.Type))
    ELSE Then(nextToken(p8), LAMBDA p9 :
    IF p9.curToken.Type # IDENT
    THEN Fail(p9, Errorf("expected identifier, got " \o p9.curToken.Type))
    ELSE Then(nextToken(p9), LAMBDA p10 :
    IF p10.curToken.Type # RBRACE
    THEN Fail(p10, Errorf("expected '}', got " \o p10.curToken.Type))
    ELSE Ok(p10, [kind |-> "Relationship", Type |-> type,
                  Name |-> p2.curToken.Literal,
                  Child |-> p6.curToken.Literal,
                  Parent |-> p9.curToken.Literal]))))))))))

\* A parseRelationship that consumes the tag without recording it.
parseRelationshipTagDropped(p1) == parseRelationshipBody(nextToken(p1), "")

\* parseRelationship: the optional tag, whose name becomes rel.Type
parseRelationshipTag(p1) == parseRelationshipBody(nextToken(p1), p1.curToken.Literal)

parseRelationship(p) ==
    IF p.curToken.Type = AT
    THEN parseRelationshipTag(nextToken(p))
    ELSE parseRelationshipBody(p, "")

(***************************************************************************)
(* Statement grammar: systems, their query, parameters and code block.     *)
(***************************************************************************)
parseRelationCall(p0) ==
    IF ~curTokenIs(p0, IDENT)
    THEN Fail(p0, newError(p0, "expected relation type identifier, got " \o p0.curToken.Type))
    ELSE Then(nextToken(p0), LAMBDA p1 :
    IF ~curTokenIs(p1, LPAREN)
    THEN Fail(p1, newError(p1, "expected '(' after relation type, got " \o p1.curToken.Type))
    ELSE Then(nextToken(p1), LAMBDA p2 :
    IF ~curTokenIs(p2, IDENT)
    THEN Fail(p2, newError(p2, "expected component name inside relation parentheses, got "
                               \o p2.curToken.Type))
    ELSE Then(nextToken(p2), LAMBDA p3 :
    IF ~curTokenIs(p3, RPAREN)
    THEN Fail(p3, newError(p3, "expected ')' after relation component name, got "
                               \o p3.curToken.Type))
    ELSE Ok(nextToken(p3), [kind |-> "Relation", Type |-> p0.curToken.Literal,
                            Component |-> p2.curToken.Literal]))))

\* An entry that is a component name whatever follows the identifier.
parseQueryEntryNoLookahead(p, query) ==
    IF curTokenIs(p, IDENT)
    THEN Ok(nextToken(p), [query EXCEPT !.Components = Append(@, p.curToken.Literal)])
    ELSE Fail(p, newError(p, "expected component name or relation type in query, got "
                             \o p.curToken.Type))

\* parseQueryContent: one entry of the list, a relation call or a component name
parseQueryEntry(p, query) ==
    IF curTokenIs(p, IDENT)
    THEN IF peekTokenIs(p, LPAREN)
         THEN Try(parseRelationCall(p), LAMBDA r :
              Ok(r.p, [query EXCEPT !.Relations = Append(@, r.node)]))
         ELSE Ok(nextToken(p), [query EXCEPT !.Components = Append(@, p.curToken.Literal)])
    ELSE Fail(p, newError(p, "expected component name or relation type in query, got "
                             \o p.curToken.Type))

\* the loop of parseQueryContent
RECURSIVE parseQueryLoop(_, _)
parseQueryLoop(p, query) ==
    IF ~curTokenIs(p, RPAREN) /\ ~curTokenIs(p, EOF)
    THEN Try(parseQueryEntry(p, query), LAMBDA r :
         IF curTokenIs(r.p, COMMA) THEN parseQueryLoop(nextToken(r.p), r.node)
         ELSE IF ~curTokenIs(r.p, RPAREN)
         THEN Fail(r.p, newError(r.p, "expected ',' or ')' in query, got "
                                      \o r.p.curToken.Type))
         ELSE parseQueryLoop(r.p, r.node))
    ELSE Ok(p, query)

parseQueryContent(p) ==
    parseQueryLoop(p, [kind |-> "Query", Components |-> <<>>, Relations |-> <<>>])

\* a non-nil slice
NonNilSlice(elems) == [kind |-> "slice", elems |-> elems]

\* parseParametersBlock: the end of one parameter, the ';'
parseParameterEnd(p, type, name, default) ==
    IF ~curTokenIs(p, SEMICOLON)
    THEN Fail(p, newError(p, "expected ';' after parameter definition, got "
                             \o p.curToken.Type \o " (\"" \o p.curToken.Literal \o "\")"))
    ELSE Ok(nextToken(p), [kind |-> "Parameter", Name |-> name, Type |-> type,
                           DefaultValue |-> default])

\* parseParametersBlock: one parameter, Type name [= expr] ;
parseParameter(p0) ==
    IF ~curTokenIs(p0, IDENT)
    THEN Fail(p0, newError(p0, "expected parameter type, got " \o p0.curToken.Type))
    ELSE Then(nextToken(p0), LAMBDA p1 :
    IF ~curTokenIs(p1, IDENT)
    THEN Fail(p1, newError(p1, "expected parameter name, got " \o p1.curToken.Type))
    ELSE Then(nextToken(p1), LAMBDA p2 :
    IF curTokenIs(p2, ASSIGN)
    THEN Try(parseExpression(nextToken(p2), LOWEST), LAMBDA r :
         parseParameterEnd(nextToken(r.p), p0.curToken.Literal, p1.curToken.Literal, r.node))
    ELSE parseParameterEnd(p2, p0.curToken.Literal, p1.curToken.Literal, Nil)))

\* the loop of parseParametersBlock, then the closing brace
RECURSIVE parseParametersLoop(_, _)
parseParametersLoop(p, params) ==
    IF ~curTokenIs(p, RBRACE) /\ ~curTokenIs(p, EOF)
    THEN Try(parseParameter(p), LAMBDA r :
         parseParametersLoop(r.p, Append(params, r.node)))
    ELSE IF ~curTokenIs(p, RBRACE)
         THEN Fail(p, newError(p, "expected '}' to close params block, got "
                                  \o p.curToken.Type))
         ELSE Ok(nextToken(p), NonNilSlice(params))

parseParametersBlock(p0) ==
    Then(nextToken(p0), LAMBDA p1 :
    IF ~curTokenIs(p1, LBRACE)
    THEN Fail(p1, newError(p1, "expected '{' to start params block, got "
                               \o p1.curToken.Type))
    ELSE parseParametersLoop(nextToken(p1), <<>>))

isWordToken(tok) ==
    tok.Type \in {IDENT, INT, FLOAT, STRING_, TRUE_, FALSE_, COMPONENT, SYSTEM, RELATIONSHIP,
                  QUERY, FREQUENCY, PRIORITY, RETURN, FUNCTION, IF_, ELSE_, FOR, WHILE}

shouldAddSpace(cur, peek) ==
    IF peek.Type = RBRACE THEN FALSE
    ELSE IF peek.Type \in {DOT, COMMA, SEMICOLON, COLON, LPAREN, RPAREN, LBRACKET, RBRACKET,
                           LBRACE} THEN FALSE
    ELSE IF cur.Type \in {DOT, LPAREN, LBRACKET, LBRACE, AT} THEN FALSE
    ELSE isWordToken(cur) /\ isWordToken(peek)

\* the loop of parseCodeBlock: code is the strings.Builder
RECURSIVE parseCodeLoop(_, _)
parseCodeLoop(p, code) ==
    IF ~curTokenIs(p, RBRACE) /\ ~curTokenIs(p, EOF)
    THEN parseCodeLoop(nextToken(p),
                       code \o p.curToken.Literal
                            \o (IF shouldAddSpace(p.curToken, p.peekToken) THEN " " ELSE ""))
    ELSE [p |-> p, code |-> code]

\* At EOF parseCodeBlock builds an error with newErrorf and drops it.
parseCodeBlock(p) == parseCodeLoop(p, "")

\* &ast.System{}
NewSystem ==
    [kind |-> "System", Name |-> "", Parameters |-> Nil, Query |-> Nil,
     Frequency |-> Nil, Priority |-> Nil, Code |-> "", Line |-> 0, Column |-> 0]

\* The state of parseSystem's loop: the Parser, the system, codeParsed.
Body(p, system, codeParsed) ==
    [p |-> p, node |-> system, codeParsed |-> codeParsed, err |-> Nil]

\* return nil, err from inside the loop of parseSystem
BodyFail(r) == [p |-> r.p, node |-> Nil, codeParsed |-> FALSE, err |-> r.err]

\* case token.QUERY
parseSystemQuery(p, system, codeParsed) ==
    IF system.Query # Nil THEN BodyFail(Fail(p, newError(p, "duplicate query block")))
    ELSE Then(nextToken(p), LAMBDA p1 :
    IF ~curTokenIs(p1, LPAREN)
    THEN BodyFail(Fail(p1, newError(p1, "expected '(' after query keyword, got "
                                        \o p1.curToken.Type)))
    ELSE Then(parseQueryContent(nextToken(p1)), LAMBDA q :
    IF q.err # Nil THEN BodyFail(q)
    ELSE IF ~curTokenIs(q.p, RPAREN)
    THEN BodyFail(Fail(q.p, newError(q.p, "expected ')' to close query, got "
                                          \o q.p.curToken.Type)))
    ELSE Body(nextToken(q.p), [system EXCEPT !.Query = q.node], codeParsed)))

\* case token.IDENT
parseSystemIdent(p, system, codeParsed) ==
    IF p.curToken.Literal = "params"
    THEN IF system.Parameters # Nil
         THEN BodyFail(Fail(p, newError(p, "duplicate params block")))
         ELSE Then(parseParametersBlock(p), LAMBDA r :
              IF r.err # Nil THEN BodyFail(r)
              ELSE Body(r.p, [system EXCEPT !.Parameters = r.node], codeParsed))
    ELSE BodyFail(Fail(p, newError(p, "unexpected identifier '" \o p.curToken.Literal
                                      \o "' in system body")))

\* case token.FREQUENCY
parseSystemFrequency(p, system, codeParsed) ==
    IF system.Frequency # Nil
    THEN BodyFail(Fail(p, newError(p, "duplicate frequency definition")))
    ELSE Then(nextToken(p), LAMBDA p1 :
    IF ~curTokenIs(p1, COLON)
    THEN BodyFail(Fail(p1, newError(p1, "expected ':' after frequency, got "
                                        \o p1.curToken.Type)))
    ELSE Then(parseExpression(nextToken(p1), LOWEST), LAMBDA r :
    IF r.err # Nil THEN BodyFail(r)
    ELSE Body(nextToken(r.p), [system EXCEPT !.Frequency = r.node], codeParsed)))

\* case token.PRIORITY
parseSystemPriority(p, system, codeParsed) ==
    IF system.Priority # Nil
    THEN BodyFail(Fail(p, newError(p, "duplicate priority definition")))
    ELSE Then(nextToken(p), LAMBDA p1 :
    IF ~curTokenIs(p1, COLON)
    THEN BodyFail(Fail(p1, newError(p1, "expected ':' after priority, got "
                                        \o p1.curToken.Type)))
    ELSE Then(parseExpression(nextToken(p1), LOWEST), LAMBDA r :
    IF r.err # Nil THEN BodyFail(r)
    ELSE Body(nextToken(r.p), [system EXCEPT !.Priority = r.node], codeParsed)))

\* A case that takes the code block as parsed and consumes no token.
parseSystemCodeUnconsumed(p, system, codeParsed) ==
    IF codeParsed
    THEN BodyFail(Fail(p, newError(p, "multiple code blocks found in system")))
    ELSE Body(p, system, TRUE)

\* case token.LBRACE
parseSystemCode(p, system, codeParsed) ==
    IF codeParsed
    THEN BodyFail(Fail(p, newError(p, "multiple code blocks found in system")))
    ELSE Then(parseCodeBlock(nextToken(p)), LAMBDA c :
    IF ~curTokenIs(c.p, RBRACE)
    THEN BodyFail(Fail(c.p, newError(c.p, "expected '}' to close code block, got "
                                          \o c.p.curToken.Type)))
    ELSE Body(nextToken(c.p), [system EXCEPT !.Code = c.code], TRUE))

\* one iteration of the loop of parseSystem: the switch on curToken
parseSystemBlock(p, system, codeParsed) ==
    CASE p.curToken.Type = QUERY -> parseSystemQuery(p, system, codeParsed)
      [] p.curToken.Type = IDENT -> parseSystemIdent(p, system, codeParsed)
      [] p.curToken.Type = FREQUENCY -> parseSystemFrequency(p, system, codeParsed)
      [] p.curToken.Type = PRIORITY -> parseSystemPriority(p, system, codeParsed)
      [] p.curToken.Type = LBRACE -> parseSystemCode(p, system, codeParsed)
      [] OTHER -> BodyFail(Fail(p, newError(p, "unexpected token " \o p.curToken.Type
                                               \o " in system body")))

\* A parseSystem that rejects a body in which no code block was parsed.
parseSystemEndCodeRequired(p, system, codeParsed) ==
    IF ~curTokenIs(p, RBRACE)
    THEN Fail(p, newError(p, "expected '}' to close system body, got " \o p.curToken.Type))
    ELSE IF ~codeParsed THEN Fail(p, newError(p, "system has no code block"))
    ELSE Ok(p, system)

\* What parseSystem checks once its loop has ended.
parseSystemEnd(p, system, codeParsed) ==
    IF ~curTokenIs(p, RBRACE)
    THEN Fail(p, newError(p, "expected '}' to close system body, got " \o p.curToken.Type))
    ELSE Ok(p, system)

\* the loop of parseSystem
RECURSIVE parseSystemLoop(_, _, _)
parseSystemLoop(p, system, codeParsed) ==
    IF ~curTokenIs(p, RBRACE) /\ ~curTokenIs(p, EOF)
    THEN Then(parseSystemBlock(p, system, codeParsed), LAMBDA b :
         IF b.err # Nil THEN Fail(b.p, b.err)
         ELSE parseSystemLoop(b.p, b.node, b.codeParsed))
    ELSE parseSystemEnd(p, system, codeParsed)

parseSystem(p0) ==
    Then(nextToken(p0), LAMBDA p1 :
    IF ~curTokenIs(p1, IDENT)
    THEN Fail(p1, newErrorf(p0.curToken.Line, p0.curToken.Column,
                    "expected system name after 'system' keyword, got "
                    \o p1.curToken.Type))
    ELSE Then(nextToken(p1), LAMBDA p2 :
    IF ~curTokenIs(p2, LBRACE)
    THEN Fail(p2, newError(p2, "expected '{' after system name, got " \o p2.curToken.Type))
    ELSE parseSystemLoop(nextToken(p2),
                         [NewSystem EXCEPT !.Name = p1.curToken.Literal,
                                           !.Line = p1.curToken.Line,
                                           !.Column = p1.curToken.Column],
                         FALSE)))

(***************************************************************************)
(* The rendering of the tree: the String methods of package ast.           *)
(***************************************************************************)
\* strings.Join
RECURSIVE JoinWith(_, _)
JoinWith(ss, sep) ==
    IF ss = <<>> THEN ""
    ELSE IF Len(ss) = 1 THEN ss[1]
    ELSE ss[1] \o sep \o JoinWith(Tail(ss), sep)

\* seq with F applied to each element
Each(F(_), seq) == [i \in 1..Len(seq) |-> F(seq[i])]

\* %q, one byte
QuoteByte(ch) ==
    CASE ch = "\"" -> "\\\""
      [] ch = "\\" -> "\\\\"
      [] ch = "\n" -> "\\n"
      [] ch = "\t" -> "\\t"
      [] ch = "\r" -> "\\r"
      [] ch = NUL -> "\\x00"
      [] OTHER -> ch

RECURSIVE QuoteBytes(_)
QuoteBytes(str) ==
    IF str = "" THEN ""
    ELSE QuoteByte(SubSeq(str, 1, 1)) \o QuoteBytes(SubSeq(str, 2, Len(str)))

\* fmt.Sprintf("%q", value)
Quote(str) == "\"" \o QuoteBytes(str) \o "\""

\* The String method of each expression node, and TableField.String.
RECURSIVE ExprString(_)
ExprString(e) ==
    CASE e.kind \in {"Identifier", "NumberLiteral"} -> e.Value
      [] e.kind = "StringLiteral" -> Quote(e.Value)
      [] e.kind = "BooleanLiteral" -> IF e.Value THEN "true" ELSE "false"
      [] e.kind = "CallExpression" ->
            ExprString(e.Function) \o "(" \o JoinWith(Each(ExprString, e.Arguments), ", ")
            \o ")"
      [] e.kind = "TableConstructor" ->
            "{" \o JoinWith(Each(ExprString, e.Fields), ", ") \o "}"
      [] e.kind = "TableField" ->
            IF e.Key # Nil THEN ExprString(e.Key) \o " = " \o ExprString(e.Value)
            ELSE ExprString(e.Value)
      [] e.kind = "PrefixExpression" -> "(" \o e.Operator \o ExprString(e.Right) \o ")"
      [] e.kind = "MemberAccessExpression" ->
            ExprString(e.Object) \o "." \o ExprString(e.MemberName)

\* " = " and the default value, when there is one
DefaultString(e) == IF e # Nil THEN " = " \o ExprString(e) ELSE ""

\* Component.String: the line of one field
FieldLine(field) ==
    "    " \o field.Name \o ": " \o field.Type \o (IF field.Optional THEN "?" ELSE "")
    \o DefaultString(field.DefaultValue) \o "\n"

\* Component.String: an attribute
AttributeString(attr) == "@" \o attr

ComponentString(c) ==
    (IF Len(c.Attributes) > 0
     THEN JoinWith(Each(AttributeString, c.Attributes), " ") \o "\n" ELSE "")
    \o "component " \o c.Name \o " {\n" \o JoinWith(Each(FieldLine, c.Fields), "") \o "}"

RelationshipString(r) ==
    (IF r.Type # "" THEN "@" \o r.Type \o "\n" ELSE "")
    \o "relationship " \o r.Name \o " {\n    child: " \o r.Child \o "\n    parent: "
    \o r.Parent \o "\n}"

\* Relation.String
RelationString(r) == "pair(" \o r.Type \o ", " \o r.Component \o ")"

\* System.String: the line of one parameter
ParameterLine(param) ==
    "        " \o param.Name \o ": " \o param.Type \o DefaultString(param.DefaultValue)
    \o "\n"

\* strings.Split(str, "\n"): line is the line being gathered
RECURSIVE SplitLines(_, _)
SplitLines(str, line) ==
    IF str = "" THEN <<line>>
    ELSE IF SubSeq(str, 1, 1) = "\n"
    THEN <<line>> \o SplitLines(SubSeq(str, 2, Len(str)), "")
    ELSE SplitLines(SubSeq(str, 2, Len(str)), line \o SubSeq(str, 1, 1))

\* strings.TrimSpace
RECURSIVE TrimSpace(_)
TrimSpace(str) ==
    IF str = "" THEN ""
    ELSE IF SubSeq(str, 1, 1) \in {" ", "\t", "\n", "\r"}
    THEN TrimSpace(SubSeq(str, 2, Len(str)))
    ELSE IF SubSeq(str, Len(str), Len(str)) \in {" ", "\t", "\n", "\r"}
    THEN TrimSpace(SubSeq(str, 1, Len(str) - 1))
    ELSE str

\* System.String: a line of the code
CodeLine(line) == "        " \o TrimSpace(line) \o "\n"

SystemString(sys) ==
    "system " \o sys.Name \o " {\n"
    \o (IF sys.Parameters # Nil /\ Len(sys.Parameters.elems) > 0
        THEN "    parameters: {\n" \o JoinWith(Each(ParameterLine, sys.Parameters.elems), "")
             \o "    }\n"
        ELSE "")
    \o (IF sys.Query # Nil
        THEN "    query: {\n        components: [" \o JoinWith(sys.Query.Components, ", ")
             \o "]\n        relations: ["
             \o JoinWith(Each(RelationString, sys.Query.Relations), ", ") \o "]\n    }\n"
        ELSE "")
    \o (IF sys.Frequency # Nil THEN "    frequency: " \o ExprString(sys.Frequency) \o "\n"
        ELSE "")
    \o (IF sys.Priority # Nil THEN "    priority: " \o ExprString(sys.Priority) \o "\n"
        ELSE "")
    \o (IF sys.Code # ""
        THEN "    code: {\n" \o JoinWith(Each(CodeLine, SplitLines(sys.Code, "")), "")
             \o "    }\n"
        ELSE "")
    \o "}"

\* s.String() of a statement of the Program
NodeString(node) ==
    CASE node.kind = "Component" -> ComponentString(node)
      [] node.kind = "Relationship" -> RelationshipString(node)
      [] node.kind = "System" -> SystemString(node)

\* Program.String
ProgramString(program) == JoinWith(Each(NodeString, program.Statements), "\n")

(***************************************************************************)
(* Source texts.  A source text is a sequence of declarations; each is     *)
(* described by what its author meant to write and rendered to lexemes,    *)
(* and the lexemes are joined by single spaces into the input string.      *)
(* Expressions are described by the tree they denote.                      *)
(***************************************************************************)
Id(v) == [kind |-> "Identifier", Value |-> v]
Num(v) == [kind |-> "NumberLiteral", Value |-> v]
Str(v) == [kind |-> "StringLiteral", Value |-> v]
Bool(v) == [kind |-> "BooleanLiteral", Value |-> v]
Prefix(op, e) == [kind |-> "PrefixExpression", Operator |-> op, Right |-> e]
Call(f, args) == [kind |-> "CallExpression", Function |-> f, Arguments |-> args]
Member(o, m) == [kind |-> "MemberAccessExpression", Object |-> o, MemberName |-> Id(m)]
Table(fields) == [kind |-> "TableConstructor", Fields |-> fields]
Keyed(k, v) == [kind |-> "TableField", Key |-> k, Value |-> v]
Positional(v) == [kind |-> "TableField", Key |-> Nil, Value |-> v]

RECURSIVE ExprWords(_)
RECURSIVE ExprListWords(_)
RECURSIVE TableFieldsWords(_)

\* the lexemes of an expression
ExprWords(e) ==
    CASE e.kind \in {"Identifier", "NumberLiteral"} -> <<e.Value>>
      [] e.kind = "StringLiteral" -> <<"\"" \o e.Value \o "\"">>
      [] e.kind = "BooleanLiteral" -> <<IF e.Value THEN "true" ELSE "false">>
      [] e.kind = "PrefixExpression" -> <<e.Operator>> \o ExprWords(e.Right)
      [] e.kind = "CallExpression" ->
            ExprWords(e.Function) \o <<"(">> \o ExprListWords(e.Arguments) \o <<")">>
      [] e.kind = "MemberAccessExpression" ->
            ExprWords(e.Object) \o <<".">> \o ExprWords(e.MemberName)
      [] e.kind = "TableConstructor" -> <<"{">> \o TableFieldsWords(e.Fields) \o <<"}">>

\* expressions separated by commas
ExprListWords(es) ==
    IF es = <<>> THEN <<>>
    ELSE IF Len(es) = 1 THEN ExprWords(es[1])
    ELSE ExprWords(es[1]) \o <<",">> \o ExprListWords(Tail(es))

\* table fields separated by commas: ident = value, [key] = value, value
TableFieldsWords(fs) ==
    IF fs = <<>> THEN <<>>
    ELSE LET f == fs[1]
             one == IF f.Key = Nil THEN ExprWords(f.Value)
                    ELSE IF f.Key.kind = "Identifier"
                    THEN <<f.Key.Value, "=">> \o ExprWords(f.Value)
                    ELSE <<"[">> \o ExprWords(f.Key) \o <<"]", "=">> \o ExprWords(f.Value)
         IN  IF Len(fs) = 1 THEN one ELSE one \o <<",">> \o TableFieldsWords(Tail(fs))

\* = expr, or nothing
DefaultWords(e) == IF e = Nil THEN <<>> ELSE <<"=">> \o ExprWords(e)

\* A field as written: its form, and the Field it is meant to denote.
FieldWords(f) ==
    CASE f.form = "typed" -> <<f.Type, f.Name>> \o DefaultWords(f.DefaultValue) \o <<";">>
      [] f.form = "optional" ->
            <<f.Type, "?", f.Name>> \o DefaultWords(f.DefaultValue) \o <<";">>
      [] f.form = "colon" -> <<f.Name, ":", f.Type>> \o DefaultWords(f.DefaultValue) \o <<";">>
      [] f.form = "unterminated" -> <<f.Type, f.Name>> \o DefaultWords(f.DefaultValue)
      [] f.form = "colonUnterminated" ->
            <<f.Name, ":", f.Type>> \o DefaultWords(f.DefaultValue)
      [] f.form = "table" ->
            <<"table", "<", f.MapKeyType, ",", f.MapValueType, ">", f.Name>>
            \o DefaultWords(f.DefaultValue) \o <<";">>

RECURSIVE Flatten(_)
Flatten(ss) == IF ss = <<>> THEN <<>> ELSE ss[1] \o Flatten(Tail(ss))

Map(F(_), seq) == [i \in 1..Len(seq) |-> F(seq[i])]

QueryEntryWords(e) ==
    CASE e.entry = "component" -> <<e.Name>>
      [] e.entry = "call" -> <<e.Type, "(", e.Component, ")">>
      [] e.entry = "pair" -> <<"pair", "(", e.Type, ",", e.Target, ")">>

RECURSIVE CommaSeparated(_)
CommaSeparated(ss) ==
    IF ss = <<>> THEN <<>>
    ELSE IF Len(ss) = 1 THEN ss[1]
    ELSE ss[1] \o <<",">> \o CommaSeparated(Tail(ss))

ParameterWords(q) == <<q.Type, q.Name>> \o DefaultWords(q.DefaultValue) \o <<";">>

BlockWords(b) ==
    CASE b.block = "query" ->
            <<"query", "(">> \o CommaSeparated(Map(QueryEntryWords, b.entries)) \o <<")">>
      [] b.block = "params" ->
            <<"params", "{">> \o Flatten(Map(ParameterWords, b.params)) \o <<"}">>
      [] b.block = "frequency" -> <<"frequency", ":">> \o ExprWords(b.expr)
      [] b.block = "priority" -> <<"priority", ":">> \o ExprWords(b.expr)
      [] b.block = "code" -> <<"{">> \o b.words \o <<"}">>

DeclWords(d) ==
    CASE d.decl = "component" ->
            <<"component", d.Name, "{">> \o Flatten(Map(FieldWords, d.fields)) \o <<"}">>
      [] d.decl = "system" ->
            <<"system", d.Name, "{">> \o Flatten(Map(BlockWords, d.blocks)) \o <<"}">>
      [] d.decl = "relationship" ->
            (IF d.Type = "" THEN <<>> ELSE <<"@", d.Type>>)
            \o <<"relationship", d.Name, "{", "child", ":", d.Child,
                 "parent", ":", d.Parent, "}">>
      [] d.decl = "tokens" -> d.words

\* the lexemes of a source text
Words(src) == Flatten(Map(DeclWords, src))

RECURSIVE Join(_)
Join(ws) == IF ws = <<>> THEN "" ELSE IF Len(ws) = 1 THEN ws[1]
            ELSE ws[1] \o " " \o Join(Tail(ws))

\* the input string
Text(src) == Join(Words(src))

(***************************************************************************)
(* The source texts checked.                                               *)
(***************************************************************************)
\* the longest field list of a component
MaxFields == 2
\* the longest block list of a system built from the representative blocks
MaxBlocks == 3
\* the longest list of declarations of a source text of several declarations
MaxDecls == 2
\* the longest component list of a query
MaxQuery == 2

\* the sequences over S of length at most n
SeqsUpTo(S, n) == UNION {[1..k -> S] : k \in 0..n}

\* Expressions, by the tree they denote.
Atoms == {Num("10.5"), Num("10"), Id("v"), Str("s"), Bool(TRUE), Bool(FALSE)}

Compound ==
    {Prefix("-", Num("5")), Prefix("!", Id("b")),
     Call(Id("fixed"), <<Num("60")>>), Call(Id("f"), <<>>),
     Member(Id("a"), "b"), Member(Member(Id("a"), "b"), "c"),
     Call(Member(Id("CFrame"), "new"), <<Num("0"), Num("1"), Prefix("-", Num("5"))>>),
     Table(<<>>), Table(<<Positional(Num("1")), Positional(Num("2"))>>),
     Table(<<Keyed(Id("x"), Num("1"))>>), Table(<<Keyed(Str("k"), Num("2"))>>)}

Nested ==
    {Call(Id("f"), <<Table(<<>>)>>),
     Table(<<Positional(Table(<<Positional(Num("1"))>>)), Positional(Num("2"))>>),
     Call(Id("f"), <<Call(Id("g"), <<Id("v")>>)>>)}

Exprs == Atoms \cup Compound \cup Nested

Component(name, fields) == [decl |-> "component", Name |-> name, fields |-> fields]

FieldAs(form, type, name, default) ==
    [form |-> form, Type |-> type, Name |-> name, DefaultValue |-> default]

TableFieldAs(k, v, name) ==
    [form |-> "table", Type |-> "table", MapKeyType |-> k, MapValueType |-> v,
     Name |-> name, DefaultValue |-> Nil]

\* The fields of the components with several fields: x and y = 10.5 in each way
\* of writing a field, an optional field, a table field.
FieldForms ==
    {FieldAs(form, "number", "x", Nil) :
        form \in {"typed", "colon", "unterminated", "colonUnterminated"}}
    \cup {FieldAs(form, "number", "y", Num("10.5")) :
        form \in {"typed", "colon", "unterminated", "colonUnterminated"}}
    \cup {FieldAs("optional", "boolean", "admin", Nil),
          TableFieldAs("string", "boolean", "flags")}

FieldListSources == { <<Component("Position", fs)>> : fs \in SeqsUpTo(FieldForms, MaxFields) }

\* A field with each default value, alone and before another field.
DefaultSources ==
    { <<Component("Test", <<FieldAs("typed", "CFrame", "camera", e)>> \o rest)>> :
        e \in Exprs, rest \in {<<>>, <<FieldAs("typed", "number", "y", Nil)>>} }

\* The words written as key type, value type and name of a table field: type
\* names, words the keyword table lists, other identifiers, and reserved words.
TypeWords == {"string", "boolean", "Vector3", "Instance", "parameters", "any", "pair", "code"}

TableSources ==
    { <<Component("Test", <<TableFieldAs(k, v, n)>>)>> :
        k \in TypeWords, v \in TypeWords, n \in {"flags", "Enum"} }

Tokens(ws) == [decl |-> "tokens", words |-> ws]

\* Declarations that no grammar rule accepts.
MalformedSources ==
    { <<Tokens(ws)>> : ws \in
        { <<"component", "T", "{", "number", "x", "=", "(", "1", ";", "}">>,
          <<"component", "T", "{", "number", "x", "=", "f", "(", "1", ";", "}">>,
          <<"component", "T", "{", "number", "x", "=", "{", "[", "1", "=", "2", "}", ";", "}">>,
          <<"component", "T", "{", "number", "x", "=", ";", "}">>,
          <<"component", "T", "{", "number", "x", "=", "1", "+", "2", ";", "}">>,
          <<"component", "{", "}">>,
          <<"component", "T", "number", "x", ";", "}">>,
          <<"component", "T", "{", "number", "x", ";">>,
          <<"system", "{", "}">>,
          <<"system", "S", "query", "(", "A", ")", "}">>,
          <<"system", "S", "{", "{", "code">>,
          <<"system", "S", "{", "query", "(", "A">>,
          <<"system", "S", "{", "params", "{", "number", "x", "}", "}">>,
          <<"x", "=", "1">>,
          <<"#">> } }

Relationship(type, name, child, parent) ==
    [decl |-> "relationship", Type |-> type, Name |-> name, Child |-> child,
     Parent |-> parent]

RelationshipSources ==
    { <<Relationship(t, "ChildOf", c, q)>> :
        t \in {"", "parent", "child"}, c \in {"A", "child"}, q \in {"B", "parent"} }

\* The lexemes put in place of, or between, those of a relationship declaration.
StrayWords ==
    {";", ":", ",", "{", "}", "@", "child", "parent", "X", "relationship", "pair", "\"child\""}

\* ws with w written before its i-th lexeme
InsertAt(ws, i, w) == SubSeq(ws, 1, i - 1) \o <<w>> \o SubSeq(ws, i, Len(ws))

\* ws without its i-th lexeme
DeleteAt(ws, i) == SubSeq(ws, 1, i - 1) \o SubSeq(ws, i + 1, Len(ws))

\* A relationship declaration with one lexeme dropped, replaced or added.
Deviations(ws) ==
    { DeleteAt(ws, i) : i \in 1..Len(ws) }
    \cup { [ws EXCEPT ![i] = w] : i \in 1..Len(ws), w \in StrayWords }
    \cup { InsertAt(ws, i, w) : i \in 1..(Len(ws) + 1), w \in StrayWords }

DeviantRelationshipSources ==
    { <<Tokens(ws)>> : ws \in
        Deviations(DeclWords(Relationship("parent", "ChildOf", "A", "B")))
        \cup Deviations(DeclWords(Relationship("", "ChildOf", "A", "B"))) }

System(name, blocks) == [decl |-> "system", Name |-> name, blocks |-> blocks]

QueryOf(entries) == [block |-> "query", entries |-> entries]
ComponentEntry(n) == [entry |-> "component", Name |-> n]
CallEntry(t, c) == [entry |-> "call", Type |-> t, Component |-> c]
PairEntry(t, target) == [entry |-> "pair", Type |-> t, Target |-> target]
Params(ps) == [block |-> "params", params |-> ps]
Parameter(type, name, default) == [Type |-> type, Name |-> name, DefaultValue |-> default]
Frequency(e) == [block |-> "frequency", expr |-> e]
Priority(e) == [block |-> "priority", expr |-> e]
Code(ws) == [block |-> "code", words |-> ws]

\* the code block of the systems
SomeCode == Code(<<"pos", ".", "x", "=", "pos", ".", "x", "+", "vel", ".", "x", ";">>)

\* One block of each type.
BlockOfEachType ==
    {QueryOf(<<ComponentEntry("Position"), ComponentEntry("Velocity")>>),
     Params(<<Parameter("number", "speed", Num("5")), Parameter("string", "mode", Nil)>>),
     Frequency(Call(Id("fixed"), <<Num("60")>>)),
     Priority(Num("10")),
     SomeCode}

\* The blocks of the systems built from representative blocks.
Blocks == BlockOfEachType \cup {Params(<<>>), Frequency(Table(<<>>))}

BlockListSources == { <<System("Movement", bs)>> : bs \in SeqsUpTo(Blocks, MaxBlocks) }

\* The five types of block in every order.
EveryOrderSources ==
    { <<System("Movement", bs)>> :
        bs \in {f \in [1..Cardinality(BlockOfEachType) -> BlockOfEachType] :
                    \A i, j \in DOMAIN f : f[i] = f[j] => i = j} }

QueryNames == {"Position", "Velocity"}

\* system S { query(C1, ..., Cn) priority: E { code } }
QueryPrioritySources ==
    { <<System("Movement",
               <<QueryOf(Map(ComponentEntry, cs)), Priority(e), SomeCode>>)>> :
        cs \in SeqsUpTo(QueryNames, MaxQuery), e \in Exprs }

QueryEntries ==
    {ComponentEntry("Position"), CallEntry("parent", "Position"),
     PairEntry("ChildOf", "*"), PairEntry("ChildOf", "Position")}

QueryEntrySources ==
    { <<System("Test", <<QueryOf(es)>> \o rest)>> :
        es \in SeqsUpTo(QueryEntries, MaxQuery), rest \in {<<>>, <<SomeCode>>} }

\* The declarations of the source texts of several declarations.
Declarations ==
    {Component("A", <<FieldAs("unterminated", "number", "x", Nil)>>),
     Component("B", <<FieldAs("typed", "number", "y", Nil)>>),
     Component("E", <<>>),
     Relationship("parent", "ChildOf", "A", "B"),
     System("S", <<>>),
     System("Movement", <<QueryOf(<<ComponentEntry("A")>>), SomeCode>>),
     System("P", <<Params(<<Parameter("number", "speed", Num("5"))>>)>>),
     Tokens(<<"@", "tag", "component", "C", "{", "}">>),
     Tokens(<<";">>)}

\* a component with a '@' and one lexeme written before it
TaggedComponentSources ==
    { <<Tokens(<<"@", t>> \o ws)>> :
        t \in {"tag", "parent", "component", "relationship", "\"tag\"", "@"},
        ws \in { <<"component", "C", "{", "}">>,
                 <<"component", "C", "{", "number", "x", ";", "}">> } }
    \cup { <<Component("A", <<FieldAs("unterminated", "number", "x", Nil)>>),
             Tokens(<<"@", "tag", "component", "C", "{", "}">>),
             Component("B", <<FieldAs("typed", "number", "y", Nil)>>)>>,
           <<Component("E", <<>>),
             Tokens(<<"@", "tag", "component", "C", "{", "}">>),
             Component("B", <<FieldAs("typed", "number", "y", Nil)>>)>> }

SeveralDeclarationSources ==
    {src \in SeqsUpTo(Declarations, MaxDecls) : Len(src) # 1}

\* Declarations written in full, each closing brace and parenthesis in its
\* place: a component whose defaults are a table and a call, a system with
\* each type of block, a system whose code block holds braces of its own.
CompleteWords ==
    { <<"component", "T", "{", "number", "x", "=", "{", "a", "=", "1", ",", "2", "}", ";",
        "CFrame", "c", "=", "f", "(", "{", "1", "}", ",", "g", "(", "2", ")", ")", ";",
        "}">>,
      <<"system", "S", "{", "query", "(", "A", ",", "parent", "(", "B", ")", ")",
        "params", "{", "number", "x", "=", "f", "(", "1", ")", ";", "}",
        "frequency", ":", "fixed", "(", "60", ")", "{", "run", "(", ")", "}", "}">>,
      <<"system", "S", "{", "{", "if", "x", "{", "y", "}", "}", "}">> }

\* the delimiters of the lexemes that are opened and not closed
Unclosed(ws) ==
    Cardinality({i \in DOMAIN ws : ws[i] \in {"{", "("}})
    - Cardinality({i \in DOMAIN ws : ws[i] \in {"}", ")"}})

\* The declarations cut short: the text ends where a brace or a parenthesis
\* is still to be closed.
TruncatedSources ==
    UNION { { <<Tokens(SubSeq(ws, 1, n))>> :
                n \in {k \in 1..Len(ws) : Unclosed(SubSeq(ws, 1, k)) > 0} } :
            ws \in CompleteWords }

\* The lexemes of code blocks: without braces, and with braces in pairs.
CodeWords ==
    { <<"x", "=", "1", ";">>,
      <<"if", "x", "{", "y", "}">>,
      <<"{", "}">>,
      <<"for", "{", "if", "{", "a", "}", "}", "b">> }

\* system S { [query(A)] { code } [priority: 1] }
CodeSources ==
    { <<System("S", before \o <<Code(ws)>> \o after)>> :
        ws \in CodeWords,
        before \in {<<>>, <<QueryOf(<<ComponentEntry("A")>>)>>},
        after \in {<<>>, <<Priority(Num("1"))>>} }

\* The default values written before further lexemes, and the lexemes
\* written between a default value and the ';'.
LeadingExprs ==
    {Num("1"), Id("v"), Str("s"), Bool(TRUE), Prefix("-", Num("5")),
     Call(Id("f"), <<Num("1")>>), Member(Id("a"), "b"),
     Table(<<>>), Table(<<Positional(Num("1")), Keyed(Id("k"), Num("2"))>>)}

TrailingWords ==
    {<<"+", "2">>, <<"*", "y">>, <<"==", "1">>, <<"-", "1">>, <<"2">>, <<"+">>,
     <<"x", "y">>, <<"<", "f", "(", "2", ")">>}

\* component T { number x = expr trailing ; [number y;] }
TrailingSources ==
    { <<[decl |-> "tokens", expr |-> e, fields |-> n,
         words |-> <<"component", "T", "{", "number", "x", "=">> \o ExprWords(e) \o tr
                   \o <<";">>
                   \o (IF n = 2 THEN <<"number", "y", ";">> ELSE <<>>) \o <<"}">>]>> :
        e \in LeadingExprs, tr \in TrailingWords, n \in {1, 2} }

\* the most words of a code block of words
MaxCodeWords == 2

\* Words of code blocks: identifiers, number and string literals, reserved
\* words.
WordsOfCode ==
    {"a", "return", "1", "2.5", "\"s\"", "true", "component", "nil", "code", "table"}

\* system S { { word ... word } }
WordCodeSources ==
    { <<System("S", <<Code(ws)>>)>> : ws \in SeqsUpTo(WordsOfCode, MaxCodeWords) }

\* Component names and relation calls, mixed.
MixedEntries ==
    {ComponentEntry("A"), ComponentEntry("B"), CallEntry("parent", "C"),
     CallEntry("owner", "D")}

MixedQuerySources ==
    { <<System("Test", <<QueryOf(es)>>)>> : es \in SeqsUpTo(MixedEntries, MaxQuery) }

Sources ==
    FieldListSources \cup DefaultSources \cup TableSources \cup MalformedSources
    \cup RelationshipSources \cup DeviantRelationshipSources
    \cup BlockListSources \cup EveryOrderSources \cup QueryPrioritySources
    \cup QueryEntrySources \cup SeveralDeclarationSources \cup TruncatedSources
    \cup CodeSources \cup TrailingSources \cup MixedQuerySources
    \cup WordCodeSources \cup TaggedComponentSources

(***************************************************************************)
(* The state machine: New, then ParseProgram's loop, one declaration a     *)
(* step.                                                                   *)
(***************************************************************************)
\* the zero value of token.Token
ZeroToken == [Type |-> "", Literal |-> "", Line |-> 0, Column |-> 0]

\* parser.New: the lexer, the two maps, and two calls of nextToken
New(input) ==
    nextToken(nextToken([l |-> NewLexer(input), curToken |-> ZeroToken,
                         peekToken |-> ZeroToken, errors |-> <<>>, stdout |-> <<>>]))

\* the Parser held in the variables
Parser ==
    [l |-> l, curToken |-> curToken, peekToken |-> peekToken, errors |-> errors,
     stdout |-> stdout]

SetParser(p) ==
    /\ l' = p.l
    /\ curToken' = p.curToken
    /\ peekToken' = p.peekToken
    /\ errors' = p.errors
    /\ stdout' = p.stdout

NoResult == [program |-> Nil, err |-> Nil]

\* A return that hands back the statements parsed before the error.
ReturnErrorPartial(stmts, err) ==
    [program |-> [kind |-> "Program", Statements |-> stmts], err |-> err]

\* return nil, err
ReturnError(stmts, err) == [program |-> Nil, err |-> err]

\* A return that hands back the statements grouped by kind, components first.
ReturnProgramGrouped(stmts) ==
    [program |-> [kind |-> "Program",
                  Statements |-> SelectSeq(stmts, LAMBDA n : n.kind = "Component")
                                 \o SelectSeq(stmts, LAMBDA n : n.kind # "Component")],
     err |-> Nil]

\* return program, nil
ReturnProgram(stmts) == [program |-> [kind |-> "Program", Statements |-> stmts], err |-> Nil]

\* The switch of ParseProgram's loop: what the grammar rule of curToken returns.
parseStatement(p) ==
    IF curTokenIs(p, COMPONENT) THEN parseComponent(p)
    ELSE IF p.curToken.Type \in {RELATIONSHIP, AT}
    THEN IF curTokenIs(p, AT) /\ ~peekTokenIs(p, IDENT)
         THEN Fail(p, newError(p, "expected identifier after @ for relationship type, got "
                                  \o p.peekToken.Type))
         ELSE parseRelationship(p)
    ELSE IF curTokenIs(p, SYSTEM) THEN parseSystem(p)
    ELSE Fail(p, Errorf("unexpected token " \o p.curToken.Type))

\* ParseProgram's loop, run to its return: stmts is program.Statements
RECURSIVE ParseProgramLoop(_, _)
ParseProgramLoop(p, stmts) ==
    IF p.curToken.Type = EOF THEN ReturnProgram(stmts)
    ELSE Then(parseStatement(p), LAMBDA r :
         IF r.err # Nil THEN ReturnError(stmts, r.err)
         ELSE ParseProgramLoop(nextToken(r.p),
                               IF r.node # Nil THEN Append(stmts, r.node) ELSE stmts))

\* parser.New(lexer.New(input)).ParseProgram(), as the tests and the command
\* line call it
ParseProgram(input) == ParseProgramLoop(New(input), <<>>)

Init ==
    /\ source \in Sources
    /\ \E p \in {New(Text(source))} :
          /\ l = p.l
          /\ curToken = p.curToken
          /\ peekToken = p.peekToken
          /\ errors = p.errors
          /\ stdout = p.stdout
    /\ statements = <<>>
    /\ result = NoResult
    /\ tokens = <<>>
    /\ pc = "parsing"
    /\ second = Nil

\* The rest of one iteration of ParseProgram's loop, r being what the grammar
\* rule returned: return its error, or append its node and call nextToken.
Dispatched(r) ==
    IF r.err # Nil
    THEN /\ SetParser(r.p)
         /\ result' = ReturnError(statements, r.err)
         /\ pc' = "done"
         /\ UNCHANGED <<source, statements, tokens, second>>
    ELSE /\ SetParser(nextToken(r.p))
         /\ statements' = IF r.node # Nil THEN Append(statements, r.node) ELSE statements
         /\ UNCHANGED <<source, result, tokens, pc, second>>

\* case token.COMPONENT
DispatchComponent ==
    /\ pc = "parsing"
    /\ curToken.Type = COMPONENT
    /\ Dispatched(parseComponent(Parser))

\* case token.RELATIONSHIP, token.AT
DispatchRelationship ==
    /\ pc = "parsing"
    /\ curToken.Type \in {RELATIONSHIP, AT}
    /\ IF curTokenIs(Parser, AT) /\ ~peekTokenIs(Parser, IDENT)
       THEN Dispatched(Fail(Parser, newError(Parser,
                "expected identifier after @ for relationship type, got " \o peekToken.Type)))
       ELSE Dispatched(parseRelationship(Parser))

\* case token.SYSTEM
DispatchSystem ==
    /\ pc = "parsing"
    /\ curToken.Type = SYSTEM
    /\ Dispatched(parseSystem(Parser))

\* default
DispatchDefault ==
    /\ pc = "parsing"
    /\ curToken.Type \notin {EOF, COMPONENT, RELATIONSHIP, AT, SYSTEM}
    /\ Dispatched(Fail(Parser, Errorf("unexpected token " \o curToken.Type)))

\* the loop ends at EOF
Return ==
    /\ pc = "parsing"
    /\ curToken.Type = EOF
    /\ result' = ReturnProgram(statements)
    /\ pc' = "done"
    /\ UNCHANGED <<source, l, curToken, peekToken, errors, stdout, statements, tokens,
                   second>>

Next ==
    \/ DispatchComponent
    \/ DispatchRelationship
    \/ DispatchSystem
    \/ DispatchDefault
    \/ Return

Spec == Init /\ [][Next]_vars

(***************************************************************************)
(* Two Parsers in one process, each on a text of its own, their            *)
(* ParseProgram calls interleaved an iteration of the loop at a time. A    *)
(* Parser's fields are its own; the standard output is the process's. The  *)
(* tables keywords and precedences are read by both and assigned by no     *)
(* code: they are definitions, not variables.                              *)
(***************************************************************************)
\* The declarations of the texts of the two Parsers: a component with a
\* table field, a relationship, a system, and a lone separator.
FirstDeclarations ==
    {Component("Flags", <<TableFieldAs("string", "boolean", "flags")>>),
     Relationship("parent", "ChildOf", "A", "B"),
     System("S", <<>>),
     Tokens(<<";">>)}

SecondDeclarations ==
    {Component("Flags", <<TableFieldAs("string", "boolean", "flags")>>),
     System("Movement", <<QueryOf(<<ComponentEntry("A")>>), SomeCode>>)}

FirstSources == SeqsUpTo(FirstDeclarations, MaxDecls)

SecondSources == SeqsUpTo(SecondDeclarations, MaxDecls)

\* parser.New on the second text
NewSecond(src) ==
    Then(New(Text(src)), LAMBDA p :
        [source |-> src, l |-> p.l, curToken |-> p.curToken, peekToken |-> p.peekToken,
         errors |-> p.errors, statements |-> <<>>, result |-> NoResult, pc |-> "parsing"])

\* A second Parser that reads the lexer of the first.
SecondSharingLexer ==
    [l |-> l, curToken |-> second.curToken, peekToken |-> second.peekToken,
     errors |-> second.errors, stdout |-> stdout]

\* the second Parser
Second ==
    [l |-> second.l, curToken |-> second.curToken, peekToken |-> second.peekToken,
     errors |-> second.errors, stdout |-> stdout]

SetSecond(p, stmts, res, at) ==
    /\ second' = [second EXCEPT !.l = p.l, !.curToken = p.curToken,
                                !.peekToken = p.peekToken, !.errors = p.errors,
                                !.statements = stmts, !.result = res, !.pc = at]
    /\ stdout' = p.stdout

\* The rest of one iteration of the second ParseProgram's loop.
SecondDispatched(r) ==
    IF r.err # Nil
    THEN SetSecond(r.p, second.statements, ReturnError(second.statements, r.err), "done")
    ELSE SetSecond(nextToken(r.p),
                   IF r.node # Nil THEN Append(second.statements, r.node)
                   ELSE second.statements,
                   second.result, "parsing")

\* one iteration of the second ParseProgram's loop
SecondDispatch ==
    /\ second.pc = "parsing"
    /\ second.curToken.Type # EOF
    /\ SecondDispatched(parseStatement(Second))
    /\ UNCHANGED <<source, l, curToken, peekToken, errors, statements, result, tokens, pc>>

\* the second loop ends at EOF
SecondReturn ==
    /\ second.pc = "parsing"
    /\ second.curToken.Type = EOF
    /\ second' = [second EXCEPT !.result = ReturnProgram(second.statements),
                                !.pc = "done"]
    /\ UNCHANGED <<source, l, curToken, peekToken, errors, stdout, statements, result,
                   tokens, pc>>

TwoInit ==
    /\ source \in FirstSources
    /\ \E p \in {New(Text(source))} :
          /\ l = p.l
          /\ curToken = p.curToken
          /\ peekToken = p.peekToken
          /\ errors = p.errors
          /\ stdout = p.stdout
    /\ statements = <<>>
    /\ result = NoResult
    /\ tokens = <<>>
    /\ pc = "parsing"
    /\ second \in {NewSecond(src) : src \in SecondSources}

TwoNext ==
    \/ DispatchComponent
    \/ DispatchRelationship
    \/ DispatchSystem
    \/ DispatchDefault
    \/ Return
    \/ SecondDispatch
    \/ SecondReturn

TwoSpec == TwoInit /\ [][TwoNext]_vars

(***************************************************************************)
(* The Parser at each token of a text: every state a loop of the grammar   *)
(* rules can begin an iteration in is New followed by calls of nextToken.  *)
(***************************************************************************)
\* Table constructors with their fields in each form, [key] = value,
\* name = value and value, alone and one after the other.
TableExprs ==
    {Table(<<Keyed(Str("k"), Num("1")), Keyed(Id("x"), Num("2")), Positional(Num("3"))>>),
     Table(<<Keyed(Num("1"), Num("2"))>>),
     Table(<<Keyed(Id("x"), Num("1")), Positional(Id("y"))>>),
     Table(<<Positional(Num("1")), Keyed(Id("x"), Num("2"))>>),
     Table(<<Positional(Id("a")), Positional(Str("b")), Positional(Bool(TRUE))>>),
     Table(<<Keyed(Id("x"), Table(<<>>))>>),
     Table(<<Positional(Table(<<>>)), Positional(Num("2"))>>),
     Call(Id("f"), <<Table(<<Positional(Num("1"))>>), Num("2")>>),
     Call(Id("f"), <<Num("1"), Table(<<>>)>>)}

\* Prefix operators, calls and member accesses one in another.
ChainExprs ==
    {Prefix("-", Call(Member(Id("a"), "b"), <<Id("c")>>)),
     Prefix("!", Member(Id("a"), "b")),
     Prefix("-", Prefix("!", Call(Id("f"), <<>>))),
     Member(Member(Id("a"), "b"), "c"),
     Member(Call(Id("f"), <<>>), "x"),
     Call(Call(Id("f"), <<Id("x")>>), <<Id("y")>>),
     Call(Member(Call(Member(Id("a"), "b"), <<>>), "c"), <<Num("1"), Id("d")>>),
     Call(Id("f"), <<Prefix("-", Member(Id("a"), "b")), Str("s"), Id("z")>>),
     Call(Member(Id("CFrame"), "new"), <<Num("0"), Num("1"), Prefix("-", Num("5"))>>)}

\* an expression as written, the tree it denotes, and a ';' after it
Expression(ws, e) == [decl |-> "tokens", words |-> ws \o <<";">>, expr |-> e]

\* Texts that are one expression: those of Exprs and TableExprs, and table
\* constructors with a comma before the closing brace.
ExpressionSources ==
    { <<Expression(ExprWords(e), e)>> : e \in Exprs \cup TableExprs \cup ChainExprs }
    \cup { <<Expression(<<"{", "1", ",", "}">>, Table(<<Positional(Num("1"))>>))>>,
           <<Expression(<<"{", "x", "=", "1", ",", "2", ",", "}">>,
                        Table(<<Keyed(Id("x"), Num("1")), Positional(Num("2"))>>))>> }

WalkSources ==
    ExpressionSources \cup DefaultSources \cup MalformedSources \cup QueryEntrySources
    \cup SeveralDeclarationSources \cup TruncatedSources \cup CodeSources

WalkInit ==
    /\ source \in WalkSources
    /\ \E p \in {New(Text(source))} :
          /\ l = p.l
          /\ curToken = p.curToken
          /\ peekToken = p.peekToken
          /\ errors = p.errors
          /\ stdout = p.stdout
    /\ statements = <<>>
    /\ result = NoResult
    /\ tokens = <<>>
    /\ pc = "walking"
    /\ second = Nil

\* p.nextToken()
CallNextTokenOfParser ==
    /\ pc = "walking"
    /\ curToken.Type # EOF
    /\ SetParser(nextToken(Parser))
    /\ UNCHANGED <<source, statements, result, tokens, pc, second>>

\* exp, err := p.parseExpression(LOWEST) on a Parser just made
CallParseExpression ==
    /\ pc = "walking"
    /\ source \in ExpressionSources
    /\ Parser = New(Text(source))
    /\ \E r \in {parseExpression(Parser, LOWEST)} :
          /\ SetParser(r.p)
          /\ result' = [node |-> r.node, err |-> r.err]
    /\ pc' = "expression"
    /\ UNCHANGED <<source, statements, tokens, second>>

WalkNext ==
    \/ CallNextTokenOfParser
    \/ CallParseExpression

WalkSpec == WalkInit /\ [][WalkNext]_vars

(***************************************************************************)
(* The lexer driven by itself, as the tests of package lexer drive it:     *)
(* lexer.New on a text, then NextToken again and again.                    *)
(***************************************************************************)
\* the most calls of NextToken on one lexer
MaxCalls == 5
\* the longest run of digits of a numeric literal
MaxDigits == 2
\* the most bytes after the opening quote of a string
MaxStringBytes == 3
\* the most bytes of a text of operators
MaxOperatorBytes == 3
\* the most bytes of a text of words, separators and line ends
MaxTextBytes == 4

\* the texts of at most n bytes over an alphabet
RECURSIVE TextsUpTo(_, _)
TextsUpTo(alphabet, n) ==
    IF n = 0 THEN {""}
    ELSE {""} \cup {ch \o text : ch \in alphabet, text \in TextsUpTo(alphabet, n - 1)}

\* runs of digits
DigitRuns == TextsUpTo({"0", "1", "9"}, MaxDigits) \ {""}

\* digits, digits '.' digits, and '.' digits
IntTexts == DigitRuns
FloatTexts == {a \o "." \o b : a, b \in DigitRuns}
LeadingDotTexts == {"." \o b : b \in DigitRuns}
NumberTexts == IntTexts \cup FloatTexts \cup LeadingDotTexts

\* digits with a second '.', and a '.' with no digit after it
SeveralDotTexts ==
    {a \o "." \o b \o "." \o c : a, b, c \in {"1", "02"}}
    \cup {"1.", "1..2", "1.2.", "1.2..3"}

\* a '-' and a number, with and without something before the '-'
SignedNumberTexts ==
    {b \o "-" \o n : b \in {"", "-", "a", "1", "("}, n \in {"89", "12.34", "0", ".5"}}
    \cup {"- 1", "-a", "1e-5"}

\* a number and, with nothing between, letters
SuffixedNumberTexts ==
    {n \o u : n \in {"60", "1", "3.5"}, u \in {"hz", "s", "x", "Hz2"}}

\* words written [A-Za-z_][A-Za-z0-9_]*: every word of the keyword table, words
\* near them, and the words package token has a kind for that the table lacks
IdentifierTexts ==
    DOMAIN keywords
    \cup {"any", "number", "Position", "x", "_", "x1", "_1", "Component", "COMPONENT",
          "components", "componen", "code1", "nil_", "True", "tables", "pairs", "params",
          "null", "function", "if", "else", "return", "for", "while", "in", "Vector4"}

\* the bytes written in strings: a letter, the letter of an escape, the two
\* quotes, the backslash
StringBytes == {"a", "n", "\"", "'", "\\"}

\* an opening quote and what follows it
StringTexts ==
    {q \o body : q \in {"\"", "'"}, body \in TextsUpTo(StringBytes, MaxStringBytes)}
    \cup {"\"\\t\\r\"", "'a b' x", "\"hello\" 'world' \"escaped \\\"quote\\\"\""}

\* the bytes of the operators, and the space
OperatorBytes == {"=", "!", "<", ">", "+", "&", "|", " "}

OperatorTexts == TextsUpTo(OperatorBytes, MaxOperatorBytes)

\* a letter, a separator, the space and the line end
PositionTexts == TextsUpTo({"a", ";", " ", "\n"}, MaxTextBytes)

\* the most bytes of a text with comments
MaxCommentBytes == 4

\* a letter, a separator, the slash, the space and the line end: the texts
\* with a comment before a line end, a comment that ends the text, a lone
\* slash, and no comment at all
CommentTexts == TextsUpTo({"a", ";", "/", " ", "\n"}, MaxCommentBytes)

\* the most bytes of a text with bytes that begin no token
MaxIllegalBytes == 3

\* bytes that begin no token: two of ASCII and two of 0x80 and more
IllegalBytes == {"#", "~", "é", "ÿ"}

\* the bytes that begin no token, a separator and the space
IllegalTexts == TextsUpTo(IllegalBytes \cup {";", " "}, MaxIllegalBytes)

\* texts that hold the byte 0
NulTexts == {"a" \o NUL \o "b", NUL, NUL \o ";", "a " \o NUL \o " b", "\"a" \o NUL \o "b\""}

LexTexts ==
    NumberTexts \cup SuffixedNumberTexts \cup IdentifierTexts \cup StringTexts
    \cup OperatorTexts \cup PositionTexts \cup NulTexts \cup CommentTexts
    \cup IllegalTexts \cup SeveralDotTexts \cup SignedNumberTexts

\* the source text that is the text, byte for byte
Raw(text) == <<Tokens(<<text>>)>>

\* l := lexer.New(input)
LexInit ==
    /\ source \in {Raw(text) : text \in LexTexts}
    /\ l = NewLexer(Text(source))
    /\ tokens = <<>>
    /\ pc = "lexing"
    /\ curToken = ZeroToken
    /\ peekToken = ZeroToken
    /\ errors = <<>>
    /\ stdout = <<>>
    /\ statements = <<>>
    /\ result = NoResult
    /\ second = Nil

\* tok := l.NextToken()
CallNextToken ==
    /\ pc = "lexing"
    /\ Len(tokens) < MaxCalls
    /\ \E r \in {NextToken(l)} :
          /\ l' = r.l
          /\ tokens' = Append(tokens, r.tok)
    /\ UNCHANGED <<source, curToken, peekToken, errors, stdout, statements, result, pc,
                   second>>

LexNext == CallNextToken

LexSpec == LexInit /\ [][LexNext]_vars

(***************************************************************************)
(* What the claims speak of.                                               *)
(***************************************************************************)
\* ParseProgram has returned
Done == pc = "done"

\* ParseProgram has returned a Program and a nil error
Succeeded == Done /\ result.err = Nil /\ result.program # Nil

\* the statements of the Program returned
Returned == result.program.Statements

\* The words of the keyword table that have a kind of their own: a word is an
\* identifier when it is not one of them.
ReservedWords ==
    {"component", "system", "relationship", "query", "frequency", "priority", "code",
     "pair", "table", "true", "false", "nil"}

\* w is written [A-Za-z_][A-Za-z0-9_]* and is not a reserved word
IsIdentifier(w) ==
    /\ Len(w) > 0
    /\ SubSeq(w, 1, 1) \in Letters
    /\ \A i \in 1..Len(w) : SubSeq(w, i, i) \in Letters \cup Digits
    /\ w \notin ReservedWords

\* the Field a field written Type name or Type name = expr stands for
ExpectedField(f) ==
    [kind |-> "Field", Name |-> f.Name, Type |-> f.Type, Optional |-> FALSE,
     MapKeyType |-> "", MapValueType |-> "", DefaultValue |-> f.DefaultValue]

\* the Field a field written table<K, V> name stands for
ExpectedTableField(f) ==
    [kind |-> "Field", Name |-> f.Name, Type |-> "table", Optional |-> FALSE,
     MapKeyType |-> f.MapKeyType, MapValueType |-> f.MapValueType, DefaultValue |-> Nil]

\* the source text is the one declaration d
OnlyDeclaration(d) == source = <<d>>

\* the source text is one declaration, a component
OneComponent == Len(source) = 1 /\ source[1].decl = "component"

\* the source text is one declaration, a system
OneSystem == Len(source) = 1 /\ source[1].decl = "system"

\* the number of blocks of the type in a list of blocks
CountBlocks(blocks, type) == Cardinality({i \in DOMAIN blocks : blocks[i].block = type})

\* C1: ParseProgram returns either a Program and a nil error or a nil Program
\* and an error: while it runs nothing is returned, and once a grammar rule
\* has reported an error it has returned, with an error and no Program.
C1_ProgramOrError ==
    /\ Done => \/ result.program # Nil /\ result.err = Nil
               \/ result.program = Nil /\ result.err # Nil
    /\ ~Done => result = NoResult
    /\ errors # <<>> => Done /\ result.err # Nil /\ result.program = Nil

\* After a declaration was parsed and appended, a later one was in error.
C1_ErrorAfterStatement ==
    Done /\ result.err # Nil /\ result.program = Nil /\ statements # <<>>

\* the component has a field, and its last field has no ';' before the '}'
LastFieldUnterminated(d) ==
    /\ d.decl = "component"
    /\ d.fields # <<>>
    /\ d.fields[Len(d.fields)].form \in {"unterminated", "colonUnterminated"}

\* C2: if a field of a component is not terminated by ';' before the
\* component's closing '}', ParseProgram returns an error.
C2_MissingSemicolonIsError ==
    (Done /\ \E i \in DOMAIN source : LastFieldUnterminated(source[i]))
        => result.err # Nil

\* C3: a component whose fields are written Type name; or Type name = expr;
\* parses to a Component with its name and one Field for each declaration, in
\* order, with its Type, its Name and the default expression or nil.
C3_TypedFieldsParse ==
    (Done /\ OneComponent /\ \A i \in DOMAIN source[1].fields :
                                source[1].fields[i].form = "typed")
        => /\ Succeeded
           /\ Returned = <<[kind |-> "Component", Name |-> source[1].Name,
                            Fields |-> Map(ExpectedField, source[1].fields),
                            Attributes |-> <<>>]>>

\* component Position { x: number; y: number = 10.5; }
ColonPosition ==
    Component("Position", <<FieldAs("colon", "number", "x", Nil),
                            FieldAs("colon", "number", "y", Num("10.5"))>>)

\* C4: component Position { x: number; y: number = 10.5; } parses to the
\* Component Position with two fields, x without a default and y with the
\* default NumberLiteral 10.5.
C4_ColonFieldsParse ==
    (Done /\ OnlyDeclaration(ColonPosition))
        => /\ Succeeded
           /\ Len(Returned) = 1
           /\ Returned[1].kind = "Component"
           /\ Returned[1].Name = "Position"
           /\ Len(Returned[1].Fields) = 2
           /\ Returned[1].Fields[1].Name = "x"
           /\ Returned[1].Fields[1].DefaultValue = Nil
           /\ Returned[1].Fields[2].Name = "y"
           /\ Returned[1].Fields[2].DefaultValue = Num("10.5")

\* the source text is a component with the one field table<K, V> name, K, V
\* and name identifiers
OneTableField ==
    /\ OneComponent
    /\ Len(source[1].fields) = 1
    /\ source[1].fields[1].form = "table"
    /\ IsIdentifier(source[1].fields[1].MapKeyType)
    /\ IsIdentifier(source[1].fields[1].MapValueType)
    /\ IsIdentifier(source[1].fields[1].Name)

\* C5: for all identifiers K, V and name the field table<K, V> name; parses
\* to a Field with Type "table", MapKeyType K, MapValueType V and Name name.
C5_TableFieldParses ==
    (Done /\ OneTableField)
        => /\ Succeeded
           /\ Len(Returned) = 1
           /\ Returned[1].Fields = <<ExpectedTableField(source[1].fields[1])>>

\* A table field whose key and value types are type names the keyword table
\* lists was parsed.
C5_TypeNamesAsKeyAndValue ==
    /\ Succeeded
    /\ OneTableField
    /\ source[1].fields[1].MapKeyType = "Vector3"
    /\ source[1].fields[1].MapValueType = "Instance"
    /\ Returned[1].Fields[1].MapKeyType = "Vector3"

\* the source text is system S { query(C1, ..., Cn) priority: E { code } }
QueryPriorityCode ==
    /\ OneSystem
    /\ Len(source[1].blocks) = 3
    /\ source[1].blocks[1].block = "query"
    /\ \A i \in DOMAIN source[1].blocks[1].entries :
            source[1].blocks[1].entries[i].entry = "component"
    /\ source[1].blocks[2].block = "priority"
    /\ source[1].blocks[3].block = "code"

\* the name of a query entry that is a component
EntryName(e) == e.Name

\* C6: system S { query(C1, ..., Cn) priority: E { code } } parses to a System
\* whose Query.Components are C1, ..., Cn in order and whose Priority is E.
C6_QueryPriorityCodeParses ==
    (Done /\ QueryPriorityCode)
        => /\ Succeeded
           /\ Len(Returned) = 1
           /\ Returned[1].kind = "System"
           /\ Returned[1].Query # Nil
           /\ Returned[1].Query.Components = Map(EntryName, source[1].blocks[1].entries)
           /\ Returned[1].Priority = source[1].blocks[2].expr

\* the types of block
BlockTypes == {"query", "params", "frequency", "priority", "code"}

\* some type of block occurs twice in the system
RepeatedBlock(d) == \E t \in BlockTypes : CountBlocks(d.blocks, t) > 1

\* C7: the blocks of a system are accepted in any order, and a second block
\* of a type makes ParseProgram return an error.
C7_AnyOrderNoRepeat ==
    (Done /\ OneSystem /\ \A i \in DOMAIN source[1].blocks :
                             source[1].blocks[i] \in Blocks)
        => IF RepeatedBlock(source[1]) THEN result.err # Nil ELSE Succeeded

EmptyOrQueryOnly(d) ==
    \/ d.blocks = <<>>
    \/ /\ Len(d.blocks) = 1
       /\ d.blocks[1].block = "query"
       /\ \A i \in DOMAIN d.blocks[1].entries : d.blocks[1].entries[i].entry = "component"

AfterTag(ws) == IF ws # <<>> /\ ws[1] = "@" THEN SubSeq(ws, 3, Len(ws)) ELSE ws

\* ws is [@tag] relationship Name { child : A parent : B }
IsRelationshipDeclaration(ws) ==
    /\ ws # <<>>
    /\ ws[1] = "@" => Len(ws) >= 2 /\ IsIdentifier(ws[2])
    /\ Len(AfterTag(ws)) = 10
    /\ AfterTag(ws)[1] = "relationship"
    /\ IsIdentifier(AfterTag(ws)[2])
    /\ AfterTag(ws)[3] = "{"
    /\ AfterTag(ws)[4] = "child"
    /\ AfterTag(ws)[5] = ":"
    /\ IsIdentifier(AfterTag(ws)[6])
    /\ AfterTag(ws)[7] = "parent"
    /\ AfterTag(ws)[8] = ":"
    /\ IsIdentifier(AfterTag(ws)[9])
    /\ AfterTag(ws)[10] = "}"

\* the Relationship the lexemes of a relationship declaration stand for
ExpectedRelationship(ws) ==
    [kind |-> "Relationship", Type |-> IF ws[1] = "@" THEN ws[2] ELSE "",
     Name |-> AfterTag(ws)[2], Child |-> AfterTag(ws)[6], Parent |-> AfterTag(ws)[9]]

\* the source text is one declaration written as a relationship, or as one
\* with a lexeme dropped, replaced or added
RelationshipOrDeviant ==
    source \in RelationshipSources \cup DeviantRelationshipSources

ExpectedRelation(e) ==
    IF e.entry = "pair"
    THEN [kind |-> "Relation", Type |-> e.Type, Target |-> e.Target]
    ELSE [kind |-> "Relation", Type |-> e.Type, Component |-> e.Component]

\* the entries of a query that are not component names
RECURSIVE RelationEntries(_)
RelationEntries(es) ==
    IF es = <<>> THEN <<>>
    ELSE IF es[1].entry = "component" THEN RelationEntries(Tail(es))
    ELSE <<es[1]>> \o RelationEntries(Tail(es))

\* the source text is a system that begins with a query block, one of whose
\* entries is pair(Type, Target)
QueryWithPair ==
    /\ OneSystem
    /\ source[1].blocks # <<>>
    /\ source[1].blocks[1].block = "query"
    /\ \E i \in DOMAIN source[1].blocks[1].entries :
            source[1].blocks[1].entries[i].entry = "pair"

\* C10: a query entry pair(Type, Target), Target an identifier or '*', is
\* accepted and recorded in Query.Relations with that Type and Target.
C10_PairIsRelation ==
    (Done /\ QueryWithPair)
        => /\ Succeeded
           /\ Len(Returned) = 1
           /\ Returned[1].Query # Nil
           /\ Returned[1].Query.Relations =
                Map(ExpectedRelation, RelationEntries(source[1].blocks[1].entries))

\* s begins with prefix
HasPrefix(s, prefix) == Len(s) >= Len(prefix) /\ SubSeq(s, 1, Len(prefix)) = prefix

\* The columns, counted from 1, at which the lexemes of a source text begin:
\* the lexemes are joined by single spaces.
RECURSIVE WordColumns(_, _)
WordColumns(ws, column) ==
    IF ws = <<>> THEN {}
    ELSE {column} \cup WordColumns(Tail(ws), column + Len(ws[1]) + 1)

\* The positions of the tokens of the source text, which is one line: where
\* each lexeme begins, and the end of the text, where the EOF token is.
TokenColumns == WordColumns(Words(source), 1) \cup {Len(Text(source)) + 1}

\* C11: every error ParseProgram returns renders as
\* line <L>, column <C>: <message>, L and C being the line and the column of
\* a token of the input.
C11_ErrorsCarryPosition ==
    (Done /\ result.err # Nil)
        => \E c \in TokenColumns :
              HasPrefix(ErrorText(result.err), "line 1, column " \o Itoa(c) \o ": ")

\* C11, the errors that carry a position at all: the position is that of a
\* token as the lexer counts columns, one more than the column of the text.
C11_PositionedErrorsAreOneColumnOff ==
    (Done /\ result.err # Nil /\ result.err.kind = "Error")
        => /\ result.err.Line = 1
           /\ result.err.Column - 1 \in TokenColumns \cup {Len(Text(source)) + 2}

\* the kind of node a declaration of the source text stands for
NodeKind(d) ==
    CASE d.decl = "component" -> "Component"
      [] d.decl = "relationship" -> "Relationship"
      [] d.decl = "system" -> "System"
      [] OTHER -> ""

\* every declaration of the source text is described by what it declares
AllDeclared == \A i \in DOMAIN source : source[i].decl # "tokens"

\* stmts are nodes of declarations of the source text, of their kind and with
\* their name, in the order of the source text
InSourceOrder(stmts) ==
    \E f \in [DOMAIN stmts -> DOMAIN source] :
        /\ \A i, j \in DOMAIN stmts : i < j => f[i] < f[j]
        /\ \A i \in DOMAIN stmts :
              /\ stmts[i].kind = NodeKind(source[f[i]])
              /\ stmts[i].Name = source[f[i]].Name

\* C12: Program.Statements holds one node for each top-level declaration
\* parsed, a Component, Relationship or System node, in the order of the
\* source text, neither reordered nor grouped by kind.  The statements are
\* gathered in that order while ParseProgram runs and returned as gathered;
\* only a declaration the field scan of the component before it ran over
\* (C2) is never parsed and has no node.
C12_StatementsInSourceOrder ==
    AllDeclared
        => /\ InSourceOrder(statements)
           /\ Succeeded
                => /\ Returned = statements
                   /\ (\A i \in DOMAIN source : ~LastFieldUnterminated(source[i]))
                        => Len(Returned) = Len(source)

\* A system and then a component were parsed.
C12_SystemThenComponent ==
    /\ Succeeded
    /\ Len(source) = 2
    /\ Len(Returned) = 2
    /\ Returned[1].kind = "System"
    /\ Returned[2].kind = "Component"

\* an identifier or a literal
IsAtom(e) == e.kind \in {"Identifier", "NumberLiteral", "StringLiteral", "BooleanLiteral"}

\* a block written with identifiers, literals and simple defaults
RenderableBlock(b) ==
    CASE b.block = "query" ->
            \A i \in DOMAIN b.entries : b.entries[i].entry = "component"
      [] b.block = "params" ->
            \A i \in DOMAIN b.params :
                b.params[i].DefaultValue = Nil \/ IsAtom(b.params[i].DefaultValue)
      [] b.block \in {"frequency", "priority"} -> IsAtom(b.expr)
      [] b.block = "code" -> TRUE

\* A declaration written with the constructs the rendering knows: fields
\* Type name; and Type name = literal;, relationships, and systems whose
\* blocks hold identifiers and literals.
Renderable(d) ==
    CASE d.decl = "component" ->
            \A i \in DOMAIN d.fields :
                /\ d.fields[i].form = "typed"
                /\ d.fields[i].DefaultValue = Nil \/ IsAtom(d.fields[i].DefaultValue)
      [] d.decl = "relationship" -> TRUE
      [] d.decl = "system" -> \A i \in DOMAIN d.blocks : RenderableBlock(d.blocks[i])
      [] OTHER -> FALSE

\* a statement without the position of its name in the text
WithoutPosition(node) ==
    IF node.kind = "System" THEN [node EXCEPT !.Line = 0, !.Column = 0] ELSE node

\* what ParseProgram returns for the rendering of the Program returned
Reparsed == ParseProgram(ProgramString(result.program))

\* C13: when a source text written with identifiers, literals and simple
\* defaults was parsed, parsing the String() of the Program succeeds and
\* gives a Program equal to the first, field by field.
C13_RoundTrip ==
    (Succeeded /\ \A i \in DOMAIN source : Renderable(source[i]))
        => /\ Reparsed.err = Nil
           /\ Reparsed.program # Nil
           /\ Each(WithoutPosition, Reparsed.program.Statements)
                = Each(WithoutPosition, Returned)

\* C13, what does round-trip: a source text whose Program renders without a
\* field, a params block, a query or a code block.
C13_RoundTripWithoutFieldsAndBlocks ==
    (/\ Succeeded
     /\ \A i \in DOMAIN Returned :
            CASE Returned[i].kind = "Component" -> Returned[i].Fields = <<>>
              [] Returned[i].kind = "Relationship" -> TRUE
              [] Returned[i].kind = "System" ->
                    /\ Returned[i].Parameters = Nil
                    /\ Returned[i].Query = Nil
                    /\ Returned[i].Code = ""
                    /\ Returned[i].Frequency = Nil \/ IsAtom(Returned[i].Frequency)
                    /\ Returned[i].Priority = Nil \/ IsAtom(Returned[i].Priority))
        => /\ Reparsed.err = Nil
           /\ Reparsed.program # Nil
           /\ Each(WithoutPosition, Reparsed.program.Statements)
                = Each(WithoutPosition, Returned)

\* ParseProgram run to its return is what the steps of its loop arrive at
StepsAgreeWithParseProgram == Done => result = ParseProgram(Text(source))

\* the text the lexer was made on
Input == Text(source)

\* the byte of a text at an offset counted from 1
CharAt(text, i) == SubSeq(text, i, i)

\* the text holds the byte
Holds(text, ch) == \E i \in 1..Len(text) : CharAt(text, i) = ch

\* C14: once NextToken has returned an EOF token, every later call on that
\* lexer returns an EOF token.
C14_EofIsFinal ==
    \A i, j \in DOMAIN tokens :
        (i < j /\ tokens[i].Type = EOF) => tokens[j].Type = EOF

\* C14, the texts without the byte 0: EOF is returned when the text is at
\* its end and from then on.
C14_EofIsFinalWithoutNul ==
    ~Holds(Input, NUL) => C14_EofIsFinal

\* the text is the one token of the kind and then the end: the first call
\* returns the token with the whole text as literal, the second EOF
OneToken(kind) ==
    /\ Len(tokens) >= 1 => tokens[1].Type = kind /\ tokens[1].Literal = Input
    /\ Len(tokens) >= 2 => tokens[2].Type = EOF

\* C15: a numeric literal N, digits or digits '.' digits or '.' digits, is
\* lexed as one token before EOF, INT without a '.' and FLOAT with one, whose
\* literal is N.
C15_NumberIsOneToken ==
    Input \in NumberTexts => OneToken(IF Holds(Input, ".") THEN FLOAT ELSE INT)

\* C15, the literals that begin with a digit.
C15_DigitsFirstIsOneToken ==
    Input \in IntTexts \cup FloatTexts => OneToken(IF Holds(Input, ".") THEN FLOAT ELSE INT)

\* C16: a number with a letter right after it, as 60hz, is lexed as one IDENT
\* token whose literal is the whole run.
C16_SuffixedNumberIsIdent ==
    Input \in SuffixedNumberTexts => OneToken(IDENT)

\* the line, counted from 1, of the byte at offset i of the text
LineOf(text, i) == 1 + Cardinality({k \in 1..(i - 1) : CharAt(text, k) = "\n"})

\* the column, counted from 1, of the byte at offset i: the first byte of the
\* text and the first byte after a line end are at column 1
ColumnOf(text, i) ==
    i - (IF \E k \in 1..(i - 1) : CharAt(text, k) = "\n"
         THEN CHOOSE k \in 1..(i - 1) :
                /\ CharAt(text, k) = "\n"
                /\ \A m \in (k + 1)..(i - 1) : CharAt(text, m) # "\n"
         ELSE 0)

\* The offsets at which the tokens of a text of words, separators, spaces
\* and line ends begin: a separator is a token, and a word begins where a
\* letter follows no letter.
IsTokenStart(text, i) ==
    /\ CharAt(text, i) \notin {" ", "\n"}
    /\ \/ ~isLetter(CharAt(text, i))
       \/ i = 1
       \/ ~isLetter(CharAt(text, i - 1))

\* the offset at which the n-th token of the text begins
NthTokenStart(text, n) ==
    CHOOSE i \in 1..Len(text) :
        /\ IsTokenStart(text, i)
        /\ Cardinality({k \in 1..i : IsTokenStart(text, k)}) = n

\* C17: every token carries the line and the column, both counted from 1, of
\* its first byte in the text.
C17_PositionOfFirstByte ==
    Input \in PositionTexts
        => \A n \in DOMAIN tokens :
              tokens[n].Type # EOF
                => /\ tokens[n].Line = LineOf(Input, NthTokenStart(Input, n))
                   /\ tokens[n].Column = ColumnOf(Input, NthTokenStart(Input, n))

\* C17, what the tokens carry: the line of the first byte, and one more than
\* its column.
C17_ColumnIsOneMore ==
    Input \in PositionTexts
        => \A n \in DOMAIN tokens :
              tokens[n].Type # EOF
                => /\ tokens[n].Line = LineOf(Input, NthTokenStart(Input, n))
                   /\ tokens[n].Column = ColumnOf(Input, NthTokenStart(Input, n)) + 1

\* the kind of a reserved word: spelled like the word, but for nil
ReservedKind(w) == IF w = "nil" THEN NULL ELSE w

EscapeValue(ch) ==
    IF ch = "n" THEN "\n"
    ELSE IF ch = "t" THEN "\t"
    ELSE IF ch = "r" THEN "\r"
    ELSE IF ch \in {"\"", "'", "\\"} THEN ch
    ELSE "\\" \o ch

\* The value of the string that opens with the quote q and goes on with
\* body: the text up to the first quote q that no backslash escapes, or to
\* the end of the text, with the escapes decoded.
RECURSIVE StringValue(_, _)
StringValue(body, q) ==
    IF body = "" \/ CharAt(body, 1) = q THEN ""
    ELSE IF CharAt(body, 1) = "\\"
    THEN IF Len(body) = 1 THEN "\\"
         ELSE EscapeValue(CharAt(body, 2)) \o StringValue(SubSeq(body, 3, Len(body)), q)
    ELSE CharAt(body, 1) \o StringValue(SubSeq(body, 2, Len(body)), q)

\* no quote q that no backslash escapes is in body: the string is unterminated
RECURSIVE Unterminated(_, _)
Unterminated(body, q) ==
    IF body = "" THEN TRUE
    ELSE IF CharAt(body, 1) = q THEN FALSE
    ELSE IF CharAt(body, 1) = "\\" THEN Unterminated(SubSeq(body, 3, Len(body)), q)
    ELSE Unterminated(SubSeq(body, 2, Len(body)), q)

\* the string ends the text with a backslash that escapes nothing
RECURSIVE EndsInBackslash(_, _)
EndsInBackslash(body, q) ==
    IF body = "" \/ CharAt(body, 1) = q THEN FALSE
    ELSE IF CharAt(body, 1) = "\\"
    THEN Len(body) = 1 \/ EndsInBackslash(SubSeq(body, 3, Len(body)), q)
    ELSE EndsInBackslash(SubSeq(body, 2, Len(body)), q)

\* the opening quote of the text, and what follows it
OpeningQuote == CharAt(Input, 1)
AfterQuote == SubSeq(Input, 2, Len(Input))

\* C19: the literal of a string token is the text between the opening quote
\* and the first unescaped occurrence of the same quote, with \n, \t, \r, \",
\* \' and \\ decoded; an escaped quote and the other quote do not end the
\* string; an unterminated string goes to the end of the text and EOF follows.
C19_StringLiteral ==
    (Input \in StringTexts /\ Len(tokens) >= 1)
        => /\ tokens[1].Type = STRING_
           /\ tokens[1].Literal = StringValue(AfterQuote, OpeningQuote)
           /\ (Len(tokens) >= 2 /\ Unterminated(AfterQuote, OpeningQuote))
                => tokens[2].Type = EOF

\* C19, every string but the unterminated one whose last byte is a backslash
\* that escapes nothing.
C19_StringLiteralButLoneBackslash ==
    (Input \in StringTexts /\ Len(tokens) >= 1 /\ ~EndsInBackslash(AfterQuote, OpeningQuote))
        => /\ tokens[1].Type = STRING_
           /\ tokens[1].Literal = StringValue(AfterQuote, OpeningQuote)
           /\ (Len(tokens) >= 2 /\ Unterminated(AfterQuote, OpeningQuote))
                => tokens[2].Type = EOF

\* the operators of two bytes
TwoByteOperators == {"==", "!=", "<=", ">=", "&&", "||", "+="}

\* The kinds and literals of the tokens of a text of operator bytes and
\* spaces: at each place the operator of two bytes if its two bytes are
\* there, else the first byte alone, a lone & or | being ILLEGAL.  The kind
\* of an operator is spelled like the operator.
RECURSIVE OperatorTokens(_)
OperatorTokens(text) ==
    IF text = "" THEN <<>>
    ELSE IF CharAt(text, 1) = " " THEN OperatorTokens(SubSeq(text, 2, Len(text)))
    ELSE IF Len(text) >= 2 /\ SubSeq(text, 1, 2) \in TwoByteOperators
    THEN <<[Type |-> SubSeq(text, 1, 2), Literal |-> SubSeq(text, 1, 2)]>>
         \o OperatorTokens(SubSeq(text, 3, Len(text)))
    ELSE <<[Type |-> IF CharAt(text, 1) \in {"&", "|"} THEN ILLEGAL ELSE CharAt(text, 1),
            Literal |-> CharAt(text, 1)]>>
         \o OperatorTokens(SubSeq(text, 2, Len(text)))

\* C20: each of ==, !=, <=, >=, &&, ||, += is one token when its two bytes
\* are adjacent; otherwise the first byte is a token on its own, =, !, <, >
\* and + of their own kinds and a lone & or | ILLEGAL.
C20_TwoByteOperatorFirst ==
    Input \in OperatorTexts
        => \A n \in DOMAIN tokens :
              IF n <= Len(OperatorTokens(Input))
              THEN /\ tokens[n].Type = OperatorTokens(Input)[n].Type
                   /\ tokens[n].Literal = OperatorTokens(Input)[n].Literal
              ELSE tokens[n].Type = EOF

\* The text <== was lexed: <= and then =.
C20_LessEqualThenAssign ==
    /\ Input = "<=="
    /\ Len(tokens) = 3
    /\ tokens[1].Type = LTE
    /\ tokens[2].Type = ASSIGN
    /\ tokens[3].Type = EOF

\* the text from offset i on without its comments: a comment begins at "//"
\* and ends before the next line end or with the text
RECURSIVE StripFrom(_, _, _)
StripFrom(text, i, inComment) ==
    IF i > Len(text) THEN ""
    ELSE IF inComment
    THEN IF CharAt(text, i) = "\n" THEN "\n" \o StripFrom(text, i + 1, FALSE)
         ELSE StripFrom(text, i + 1, TRUE)
    ELSE IF i < Len(text) /\ CharAt(text, i) = "/" /\ CharAt(text, i + 1) = "/"
    THEN StripFrom(text, i + 2, TRUE)
    ELSE CharAt(text, i) \o StripFrom(text, i + 1, FALSE)

StripComments(text) == StripFrom(text, 1, FALSE)

\* what the n-th call of NextToken on a lexer returns
RECURSIVE NthToken(_, _)
NthToken(lx, n) ==
    IF n = 1 THEN NextToken(lx).tok ELSE NthToken(NextToken(lx).l, n - 1)

NthByte(text, n) ==
    CHOOSE i \in 1..Len(text) :
        /\ CharAt(text, i) # " "
        /\ Cardinality({k \in 1..i : CharAt(text, k) # " "}) = n

\* the bytes of the text that are not spaces
Bytes(text) == Cardinality({k \in 1..Len(text) : CharAt(text, k) # " "})

\* In a text of bytes that begin no token, separators and spaces, the n-th
\* token is of the n-th byte that is not a space: ILLEGAL with that byte as
\* its literal, or the separator; after the last of them comes EOF.
IllegalByteByByte(illegal) ==
    \A n \in DOMAIN tokens :
        IF n > Bytes(Input) THEN tokens[n].Type = EOF
        ELSE /\ tokens[n].Literal = CharAt(Input, NthByte(Input, n))
             /\ tokens[n].Type =
                    IF tokens[n].Literal \in illegal THEN ILLEGAL ELSE SEMICOLON

\* C22: a byte that begins no token gives one ILLEGAL token whose literal
\* is that byte, and the next call goes on at the byte after it; no token
\* is EOF before the end of the text.
C22_IllegalByteIsOneToken ==
    Input \in IllegalTexts => IllegalByteByByte(IllegalBytes)

\* C22, the bytes below 0x80.
C22_AsciiIllegalByteIsOneToken ==
    (Input \in IllegalTexts /\ \A b \in DOMAIN Utf8 : ~Holds(Input, b))
        => IllegalByteByByte(IllegalBytes)

\* C23: ParseProgram writes nothing to standard output, whatever the text.
C23_NoOutput == stdout = <<>>

\* C23, what is written: nothing but the line parseField prints when the
\* type of a field is the word table.
C23_OnlyTheDebugLine ==
    \A n \in DOMAIN stdout : stdout[n] = "DEBUG: p.curTokenIs(token.TABLE) is TRUE\n"

Consumed(p, r) == r.err # Nil \/ r.p.l.position > p.l.position

\* one iteration of ParseProgram's loop: the grammar rule, then nextToken
DispatchIteration(p) ==
    Try(parseStatement(p), LAMBDA r : Ok(nextToken(r.p), r.node))

\* one iteration of parseQueryContent's loop: the entry, then the comma
QueryIteration(p) ==
    Try(parseQueryEntry(p, [kind |-> "Query", Components |-> <<>>, Relations |-> <<>>]),
        LAMBDA r : IF curTokenIs(r.p, COMMA) THEN Ok(nextToken(r.p), r.node) ELSE r)

\* one iteration of parseTableConstructor's loop over the fields after the
\* first: the comma, then the closing brace or a field
TableIteration(p) ==
    Then(nextToken(p), LAMBDA p1 :
        IF curTokenIs(p1, RBRACE) THEN Ok(p1, Nil) ELSE parseTableField(p1))

\* C25: each iteration of each loop of the parser consumes at least one
\* token or returns an error, wherever in a text it begins: the dispatch of
\* the declarations, the field list, the scan for the ';', the query list,
\* the system body, the params block, the code block, the arguments of a
\* call, the fields of a table, the infix operators of an expression.
C25_EveryIterationConsumes ==
    pc = "walking" =>
        /\ ~curTokenIs(Parser, EOF) => Consumed(Parser, DispatchIteration(Parser))
        /\ (~curTokenIs(Parser, RBRACE) /\ ~curTokenIs(Parser, EOF))
              => /\ Consumed(Parser, parseField(Parser))
                 /\ Consumed(Parser, parseParameter(Parser))
                 /\ Consumed(Parser, Ok(nextToken(Parser), Nil))
                 /\ \A codeParsed \in BOOLEAN :
                       Consumed(Parser, parseSystemBlock(Parser, NewSystem, codeParsed))
        /\ (~curTokenIs(Parser, SEMICOLON) /\ ~curTokenIs(Parser, EOF))
              => Consumed(Parser, Ok(nextToken(Parser), Nil))
        /\ (~curTokenIs(Parser, RPAREN) /\ ~curTokenIs(Parser, EOF))
              => Consumed(Parser, QueryIteration(Parser))
        /\ peekTokenIs(Parser, COMMA)
              => Consumed(Parser, parseExpression(nextToken(nextToken(Parser)), LOWEST))
        /\ curTokenIs(Parser, COMMA) => Consumed(Parser, TableIteration(Parser))
        /\ (~peekTokenIs(Parser, SEMICOLON) /\ peekToken.Type \in infixParseFns)
              => Consumed(Parser, infixParse(nextToken(Parser), Nil))

\* C25, reached: at the '{' of a code block, the iteration of the system
\* body that parses the block returns no error and has consumed it.
C25_CodeBlockIteration ==
    /\ pc = "walking"
    /\ curTokenIs(Parser, LBRACE)
    /\ parseSystemBlock(Parser, NewSystem, FALSE).err = Nil
    /\ parseSystemBlock(Parser, NewSystem, FALSE).node.Code # ""
    /\ parseSystemBlock(Parser, NewSystem, FALSE).p.l.position > l.position

\* C25, the whole: every step of ParseProgram's loop returns or leaves the
\* lexer further in the text.
C25_StepsConsumeOrReturn == [][pc' = "done" \/ l'.position > l.position]_vars

\* the text, given by its lexemes, opens a code block right after the brace
\* of a system body and a further brace inside the code block
NestedCode ==
    \E i, j \in DOMAIN source[1].words :
        /\ i + 1 < j
        /\ source[1].words[i] = "{" /\ source[1].words[i + 1] = "{"
        /\ source[1].words[j] = "{"

\* C26: where the text ends before a '}' or a ')' that is still to come,
\* of a component body, a system body, a params block, a code block, a
\* table constructor, a query or a call, ParseProgram returns an error.
C26_EofBeforeCloserIsError ==
    (Done /\ source \in TruncatedSources) => result.err # Nil

\* C26, the texts whose code blocks hold no brace.
C26_EofBeforeCloserWithoutNestedCode ==
    (Done /\ source \in TruncatedSources /\ ~NestedCode) => result.err # Nil

\* the text without its spaces
RECURSIVE Squeeze(_)
Squeeze(text) ==
    IF text = "" THEN ""
    ELSE (IF CharAt(text, 1) = " " THEN "" ELSE CharAt(text, 1))
         \o Squeeze(SubSeq(text, 2, Len(text)))

\* the lexemes one after the other
RECURSIVE Concat(_)
Concat(ws) == IF ws = <<>> THEN "" ELSE ws[1] \o Concat(Tail(ws))

\* the blocks of the system of the text of the type
BlocksOf(type) ==
    {source[1].blocks[i] : i \in {k \in DOMAIN source[1].blocks :
                                      source[1].blocks[k].block = type}}

\* The system of the text is parsed with, as Code, the lexemes between the
\* '{' of the code block and the '}' that matches it, and with the blocks
\* written before and after the code block.
CodeIsTheMatchedBlock ==
    /\ Succeeded
    /\ Len(Returned) = 1
    /\ \A b \in BlocksOf("code") : Squeeze(Returned[1].Code) = Concat(b.words)
    /\ BlocksOf("query") # {} => Returned[1].Query # Nil
    /\ BlocksOf("priority") # {} => Returned[1].Priority # Nil

\* C27: the code block of a system ends at the '}' that matches its '{':
\* the braces in pairs inside it are part of Code, and the system body goes
\* on after the matching '}'.
C27_CodeEndsAtMatchingBrace ==
    (Done /\ source \in CodeSources) => CodeIsTheMatchedBlock

\* C27, the code blocks that hold no brace.
C27_CodeWithoutBraces ==
    (Done /\ source \in CodeSources
          /\ \A b \in BlocksOf("code") : \A i \in DOMAIN b.words : b.words[i] # "{")
        => CodeIsTheMatchedBlock

\* parseExpression was called and returned no error
Parsed == pc = "expression" /\ result.err = Nil

\* the expression ends with the closing brace of a table constructor
EndsWithTable == source[1].words[Len(source[1].words) - 1] = "}"

\* C28: when parseExpression returns without error, curToken is the last
\* token of the expression and not the one after it: of a text that is an
\* expression and a ';', the ';' is peekToken.
C28_CurTokenIsLastOfExpression ==
    Parsed => curToken.Type # SEMICOLON /\ peekToken.Type = SEMICOLON

\* C28, the expressions that do not end with a table constructor.
C28_CurTokenIsLastUnlessTable ==
    (Parsed /\ ~EndsWithTable) => curToken.Type # SEMICOLON /\ peekToken.Type = SEMICOLON

\* the expression the text was written for
Meant == source[1].expr

\* a table constructor none of whose values is a table constructor
IsFlatTable(e) ==
    /\ e.kind = "TableConstructor"
    /\ \A i \in DOMAIN e.Fields : e.Fields[i].Value.kind # "TableConstructor"

\* a field of the table is written [key] = value
HasBracketKey(e) ==
    \E i \in DOMAIN e.Fields :
        e.Fields[i].Key # Nil /\ e.Fields[i].Key.kind # "Identifier"

\* C29: a table constructor whose fields are written [key] = value,
\* name = value or value, with or without a comma before the '}', is parsed
\* to a TableConstructor whose Fields are, in the order written, the
\* TableFields with Key the key expression, the Identifier of the name, or
\* nil.
C29_TableFieldForms ==
    (pc = "expression" /\ IsFlatTable(Meant))
        => result.err = Nil /\ result.node = Meant

\* C29, the tables without a field written [key] = value.
C29_TableFieldFormsButBracketKey ==
    (pc = "expression" /\ IsFlatTable(Meant) /\ ~HasBracketKey(Meant))
        => result.err = Nil /\ result.node = Meant

\* a table constructor is the value of a field of the table, or an argument
\* of the call
HasNestedTable(e) ==
    \/ /\ e.kind = "TableConstructor"
       /\ \E i \in DOMAIN e.Fields : e.Fields[i].Value.kind = "TableConstructor"
    \/ /\ e.kind = "CallExpression"
       /\ \E i \in DOMAIN e.Arguments : e.Arguments[i].kind = "TableConstructor"

\* C30: a table constructor written as the value of a field of a table
\* constructor or as an argument of a call is parsed, and the node of the
\* outer expression holds the TableConstructor of the inner one.
C30_NestedTableParses ==
    (pc = "expression" /\ HasNestedTable(Meant))
        => result.err = Nil /\ result.node = Meant

\* C30, what is returned instead: an error, whichever way the inner table
\* is written.
C30_NestedTableIsError ==
    (pc = "expression" /\ HasNestedTable(Meant)) => result.err # Nil

\* C31: a prefix operator takes as its operand the member accesses and
\* calls that follow it, member accesses and calls chain from left to
\* right, and the arguments of a call keep the order written: the tree
\* returned is the one written, and CFrame.new(0, 1, -5) is rendered
\* CFrame.new(0, 1, (-5)).
C31_PrefixCallMemberChain ==
    (pc = "expression" /\ Meant \in ChainExprs)
        => /\ result.err = Nil
           /\ result.node = Meant
           /\ Text(source) = "CFrame . new ( 0 , 1 , - 5 ) ;"
                 => ExprString(result.node) = "CFrame.new(0, 1, (-5))"

\* C31, reached: -a.b(c) is Prefix(-, Call(Member(a, b), [c])).
C31_MinusOfCallOfMember ==
    /\ pc = "expression"
    /\ Text(source) = "- a . b ( c ) ;"
    /\ result.err = Nil
    /\ result.node.kind = "PrefixExpression"
    /\ result.node.Right.kind = "CallExpression"
    /\ result.node.Right.Function.kind = "MemberAccessExpression"
    /\ result.node.Right.Arguments = <<Id("c")>>

\* C32: where a default value is followed by further lexemes before the
\* ';', as in number x = 1 + 2;, ParseProgram returns no error, the
\* DefaultValue of the field is the expression before those lexemes, and
\* what follows the ';' is parsed as the next field.
C32_TrailingTokensDiscarded ==
    (Done /\ source \in TrailingSources)
        => /\ Succeeded
           /\ Len(Returned) = 1
           /\ Len(Returned[1].Fields) = source[1].fields
           /\ Returned[1].Fields[1].Name = "x"
           /\ Returned[1].Fields[1].DefaultValue = source[1].expr
           /\ source[1].fields = 2 => /\ Returned[1].Fields[2].Name = "y"
                                      /\ Returned[1].Fields[2].DefaultValue = Nil

\* C32, reached: number x = 1 + 2; number y; gives x with the default 1,
\* and y.
C32_OnePlusTwo ==
    /\ Done
    /\ Text(source) = "component T { number x = 1 + 2 ; number y ; }"
    /\ Succeeded
    /\ Returned[1].Fields[1].DefaultValue = Num("1")
    /\ Len(Returned[1].Fields) = 2

\* the entries of the query of the text
Entries == source[1].blocks[1].entries

\* the entries of the type, in the order written
EntriesOf(type) == SelectSeq(Entries, LAMBDA e : e.entry = type)

\* C33: an identifier before '(' is a relation call name(arg), appended to
\* Query.Relations with Type name and Component arg; any other identifier
\* is appended to Query.Components; the two may be mixed, and each list
\* is in the order written.
C33_QueryEntriesByLookahead ==
    (Done /\ source \in MixedQuerySources)
        => /\ Succeeded
           /\ Len(Returned) = 1
           /\ Returned[1].Query # Nil
           /\ Returned[1].Query.Components
                 = [i \in DOMAIN EntriesOf("component") |-> EntriesOf("component")[i].Name]
           /\ Returned[1].Query.Relations
                 = [i \in DOMAIN EntriesOf("call") |->
                       [kind |-> "Relation", Type |-> EntriesOf("call")[i].Type,
                        Component |-> EntriesOf("call")[i].Component]]

\* C33, reached: query(owner(D), A) has the relation owner of D and the
\* component A.
C33_RelationThenComponent ==
    /\ Done
    /\ Text(source) = "system Test { query ( owner ( D ) , A ) }"
    /\ Succeeded
    /\ Returned[1].Query.Components = <<"A">>
    /\ Len(Returned[1].Query.Relations) = 1
    /\ Returned[1].Query.Relations[1].Type = "owner"

\* the literal of a word: a string without its quotes, any other word
\* as written
LiteralOf(w) == IF CharAt(w, 1) = "\"" THEN SubSeq(w, 2, Len(w) - 1) ELSE w

\* the words of the code block of the text
WordsWritten == source[1].blocks[1].words

\* C34: in Code the literals of the tokens of the block are in the order
\* written, and two words one after the other, identifiers, reserved
\* words, number or string literals, have exactly one space between them.
C34_WordsSeparated ==
    (Done /\ source \in WordCodeSources)
        => /\ Succeeded
           /\ Returned[1].Code = Join(Map(LiteralOf, WordsWritten))

\* C34, the blocks without the words nil, code, pair and table.
C34_WordsSeparatedButFourReserved ==
    (Done /\ source \in WordCodeSources
          /\ \A i \in DOMAIN WordsWritten : WordsWritten[i] \notin {"nil", "code", "pair", "table"})
        => /\ Succeeded
           /\ Returned[1].Code = Join(Map(LiteralOf, WordsWritten))

\* The tokens of the stream from lx on hold curToken directly followed by
\* peekToken, and the lexer stands right behind peekToken; n bounds the search.
RECURSIVE Lockstep(_, _)
Lockstep(lx, n) ==
    Then(NextToken(lx), LAMBDA a :
    Then(NextToken(a.l), LAMBDA b :
        IF a.tok = curToken /\ b.tok = peekToken /\ b.l = l
        THEN TRUE
        ELSE IF n = 0 THEN FALSE ELSE Lockstep(a.l, n - 1)))

\* C35: at every point after New, curToken and peekToken are two consecutive
\* tokens of the stream the lexer gives for the input (token k and token k+1,
\* the end-of-input token repeated past the end), and the lexer has given
\* exactly the tokens up to peekToken: whatever the grammar rules did, the two
\* fields moved only by nextToken.
C35_PeekFollowsCur ==
    Lockstep(NewLexer(Text(source)), Len(Text(source)) + 4)

\* nextToken was called until curToken is the end-of-input token, the third
\* token of the stream or a later one, and peekToken is the token after it.
C35_WalkedToTheEnd ==
    /\ pc = "walking"
    /\ curToken.Type = EOF
    /\ peekToken.Type = EOF
    /\ NthToken(NewLexer(Text(source)), 2).Type # EOF
    /\ curToken # NthToken(NewLexer(Text(source)), 1)

\* the tokens of a sequence that are not the end-of-input token
RECURSIVE NonEof(_)
NonEof(ts) ==
    IF ts = <<>> THEN 0
    ELSE NonEof(Tail(ts)) + (IF Head(ts).Type = EOF THEN 0 ELSE 1)

\* a call of NextToken that returned a token other than end-of-input began
\* before the end of the input and left the cursor at least one byte further
Progress ==
    /\ tokens'[Len(tokens')].Type # EOF
          => /\ l.position < Len(l.input)
             /\ l'.position >= l.position + 1
    /\ NonEof(tokens') <= Len(l.input)

\* C36: every call of NextToken that returns a token other than end-of-input
\* advances the cursor of the lexer by at least one byte, so the lexer gives
\* at most n such tokens for an input of n bytes: it cannot go on for ever
\* giving tokens.
C36_EveryTokenAdvances == [][Progress]_vars

\* as many tokens as the input has bytes, and then the end of the input
C36_OneTokenPerByte ==
    /\ pc = "lexing"
    /\ Len(l.input) >= 2
    /\ Len(tokens) = Len(l.input) + 1
    /\ NonEof(tokens) = Len(l.input)
    /\ tokens[Len(tokens)].Type = EOF

\* a text is a non-empty run of digits
IsDigitRun(s) == s # "" /\ \A i \in 1..Len(s) : isDigit(SubSeq(s, i, i))

\* the offsets of the bytes '.' of a text
DotsOf(s) == {i \in 1..Len(s) : SubSeq(s, i, i) = "."}

\* digits, one '.', digits
IsOneDotNumber(s) ==
    \E i \in 1..Len(s) :
        /\ DotsOf(s) = {i}
        /\ IsDigitRun(SubSeq(s, 1, i - 1))
        /\ IsDigitRun(SubSeq(s, i + 1, Len(s)))

\* digits, and one time or more a '.' and digits
RECURSIVE IsDottedNumber(_)
IsDottedNumber(s) ==
    \E i \in 1..Len(s) :
        /\ SubSeq(s, i, i) = "."
        /\ IsDigitRun(SubSeq(s, 1, i - 1))
        /\ \/ IsDigitRun(SubSeq(s, i + 1, Len(s)))
           \/ IsDottedNumber(SubSeq(s, i + 1, Len(s)))

\* C37: a number token consumes at most one '.': the literal of an INT token
\* is a non-empty run of digits, the literal of a FLOAT token is digits, one
\* '.', digits, and so a number token is FLOAT exactly when it took a '.'.
C37_AtMostOneDot ==
    \A i \in 1..Len(tokens) :
        /\ tokens[i].Type = INT => IsDigitRun(tokens[i].Literal)
        /\ tokens[i].Type = FLOAT => IsOneDotNumber(tokens[i].Literal)

\* What holds instead: a FLOAT literal is digits followed by any number of
\* groups of a '.' and digits.
C37_DotsOnlyBeforeDigits ==
    \A i \in 1..Len(tokens) :
        /\ tokens[i].Type = INT => IsDigitRun(tokens[i].Literal)
        /\ tokens[i].Type = FLOAT => IsDottedNumber(tokens[i].Literal)

\* the offsets of a text at which a '-' stands directly before a digit
SignsOf(text) ==
    {i \in 1..(Len(text) - 1) :
        SubSeq(text, i, i) = "-" /\ isDigit(SubSeq(text, i + 1, i + 1))}

\* the offset in a one-line text of the first byte of the k-th token returned
OffsetOf(k) == tokens[k].Column - tokens[1].Column + 1

\* the k-th token is a MINUS, and the token after it an unsigned number that
\* begins on the byte after the '-'
IsSignThenNumber(text, k) ==
    /\ tokens[k].Type = MINUS
    /\ tokens[k].Literal = "-"
    /\ tokens[k + 1].Type \in {INT, FLOAT}
    /\ OffsetOf(k + 1) = OffsetOf(k) + 1
    /\ isDigit(SubSeq(tokens[k + 1].Literal, 1, 1))
    /\ tokens[k + 1].Literal =
           SubSeq(text, OffsetOf(k + 1), OffsetOf(k) + Len(tokens[k + 1].Literal))

\* C38: the lexer never puts a sign into a number token: no INT or FLOAT
\* literal holds a '-', and every '-' directly before digits is returned as a
\* MINUS token of its own followed by the unsigned INT or FLOAT token ("-89"
\* gives MINUS, INT "89"; "-12.34" gives MINUS, FLOAT "12.34").
C38_SignIsItsOwnToken ==
    /\ \A k \in 1..Len(tokens) :
          tokens[k].Type \in {INT, FLOAT}
              => \A i \in 1..Len(tokens[k].Literal) :
                     SubSeq(tokens[k].Literal, i, i) # "-"
    /\ (/\ source \in {Raw(text) : text \in SignedNumberTexts}
        /\ tokens # <<>>
        /\ tokens[Len(tokens)].Type = EOF)
          => /\ \A i \in SignsOf(Text(source)) :
                    \E k \in 1..(Len(tokens) - 1) :
                        OffsetOf(k) = i /\ IsSignThenNumber(Text(source), k)
             /\ Text(source) = "-89"
                    => /\ tokens[1].Type = MINUS
                       /\ tokens[2].Type = INT /\ tokens[2].Literal = "89"
             /\ Text(source) = "-12.34"
                    => /\ tokens[1].Type = MINUS
                       /\ tokens[2].Type = FLOAT /\ tokens[2].Literal = "12.34"

\* "1-12.34" lexed to its end: a number, the sign, the unsigned number
C38_SignBetweenNumbers ==
    /\ pc = "lexing"
    /\ Text(source) = "1-12.34"
    /\ Len(tokens) = 4
    /\ tokens[2].Type = MINUS
    /\ tokens[3].Type = FLOAT
    /\ tokens[3].Literal = "12.34"

\* the source has a '@', one lexeme and then 'component'
HasTaggedComponent ==
    \E i \in 1..(Len(Words(source)) - 2) :
        /\ Words(source)[i] = "@"
        /\ Words(source)[i + 2] = "component"

\* C39: a leading "@tag" is accepted only before a relationship: a source
\* with "@tag component ..." makes ParseProgram return an error and no
\* Program, and so every Component of a Program that is returned has an empty
\* list of Attributes.
C39_NoTaggedComponent ==
    Done => /\ HasTaggedComponent => (result.err # Nil /\ result.program = Nil)
            /\ Succeeded
                  => \A i \in 1..Len(Returned) :
                         Returned[i].kind = "Component"
                             => Returned[i].Attributes = <<>>

\* What holds instead: ParseProgram returns an error when its loop comes to
\* the '@', as it does when nothing stands before the '@' or when the
\* declarations before it are closed; and no Component returned has a tag.
C39_TagReachedIsError ==
    Done => /\ (/\ HasTaggedComponent
                /\ \A i \in 1..Len(source) :
                       source[i].decl = "component"
                           => \A j \in 1..Len(source[i].fields) :
                                  source[i].fields[j].form # "unterminated")
                  => (result.err # Nil /\ result.program = Nil)
            /\ Succeeded
                  => \A i \in 1..Len(Returned) :
                         Returned[i].kind = "Component"
                             => Returned[i].Attributes = <<>>

====
